---- MODULE Spec2Model ----
(***************************************************************************)
(* The pytest orchestrators of the JAX ROCm plugin:                        *)
(*   run_single_gpu.py  - run_parallel / run_test: a thread pool running   *)
(*                        one test module per task on a pool of GPU tokens *)
(*   run_multi_gpu.py   - main / run_multi_gpu_test: test files run one    *)
(*                        after the other on all GPUs                      *)
(* Both share the crash-recovery loop (check_for_crash, clear_crash_file,  *)
(* build_pytest_command, handle_abort, append_abort_to_json).              *)
(*                                                                         *)
(* pytest itself, the conftest that writes the last_running sentinel and   *)
(* the file system are the environment: an invocation ends with any exit   *)
(* code, report and sentinel the actions PytestExit enumerate, and the     *)
(* removal of a file may fail.                                             *)
(***************************************************************************)
EXTENDS Integers, Sequences, FiniteSets, TLC

\* ---------------------------------------------------------------- bounds
NumModules == 2      \* test modules (single GPU) / test files (multi GPU)
MaxTests == 2        \* collected tests of all modules together
MaxRows == 3         \* records of an uploaded report / rows of a training summary
MaxLines == 3        \* lines of a log file
MaxTs == 2           \* largest time stamp (and function tag) of a log line

\* ------------------------------------------------------- program constants
MinCrashAgeMs == 100 \* check_for_crash: "if duration < 0.1"
TimeoutCode == 124   \* run_shell_command: return code after TimeoutExpired
DbErrorCode == 10    \* upload_pytest_results: "raise SystemExit(10)"
BATCH_SIZE == 2      \* rows of one executemany (2000 in the scripts, scaled to the bounds)

Modules == 1..NumModules

\* Test identifiers.  The node id of the i-th collected test of a module is
\* i (1..n); UnknownTest is the string "unknown_test" check_for_crash falls
\* back to when the sentinel has neither "nodeid" nor "test_name".
UnknownTest == 0
NoKey == -1

\* ------------------------------------------------------------------ files
\* The last_running sentinel file, by what check_for_crash can tell apart.
SentAbsent == [exists |-> FALSE, parses |-> FALSE, status |-> "", start_ok |-> FALSE, age |-> 0, nodeid |-> NoKey]
SentGarbage == [exists |-> TRUE, parses |-> FALSE, status |-> "", start_ok |-> FALSE, age |-> 0, nodeid |-> NoKey]
SentFinished == [exists |-> TRUE, parses |-> TRUE, status |-> "finished", start_ok |-> TRUE, age |-> MinCrashAgeMs, nodeid |-> NoKey]
SentNoStart == [exists |-> TRUE, parses |-> TRUE, status |-> "running", start_ok |-> FALSE, age |-> 0, nodeid |-> NoKey]
SentRunning(age, id) == [exists |-> TRUE, parses |-> TRUE, status |-> "running", start_ok |-> TRUE, age |-> age, nodeid |-> id]

\* History of a last_running file.  cleared: clear_crash_file has been called
\* on it since the last pytest invocation ended (or since the run began);
\* clean: the file was absent when the invocation that runs, or has just
\* ended, was started; fresh: the file is as the invocation that has just
\* ended wrote it.  The history is kept while the recovery loop runs and
\* dropped when the loop is left.
NoHist == [cleared |-> FALSE, clean |-> FALSE, fresh |-> FALSE]

\* What an earlier run may have left at the sentinel's path: nothing, or the
\* sentinel of a test that crashed then.  The file is first looked at by the
\* clear_crash_file call that opens run_test / run_multi_gpu_test.
StaleSentinels == {SentAbsent, SentRunning(MinCrashAgeMs, 1)}

\* crash_info, the dict check_for_crash returns; NoCrash is None.
NoCrash == [test_name |-> NoKey, test_class |-> "", nodeid |-> NoKey, duration |-> 0]

\* The JSON report file of a module.
NoReport == [kind |-> "absent", tests |-> <<>>, passed |-> 0, failed |-> 0, total |-> 0, collected |-> 0, exitcode |-> 0, collector_failed |-> FALSE, unskipped_total |-> NoKey]
CorruptReport == [kind |-> "corrupt", tests |-> <<>>, passed |-> 0, failed |-> 0, total |-> 0, collected |-> 0, exitcode |-> 0, collector_failed |-> FALSE, unskipped_total |-> NoKey]

\* The final summary of main: nothing has been printed yet.
NoSummary == [printed |-> FALSE, passed |-> 0, failed |-> 0, errors |-> 0, crashed |-> 0]

\* ------------------------------------------------------------ pure helpers
Range(s) == {s[i] : i \in 1..Len(s)}

\* list(range(p))
RangeList(p) == [i \in 1..p |-> i - 1]

\* Faulty variant: the token is read but stays in the list
PopTokenPeek(tokens) == [token |-> tokens[Len(tokens)], rest |-> tokens]

\* list.pop(): the last element and the list without it
PopToken(tokens) == [token |-> tokens[Len(tokens)], rest |-> SubSeq(tokens, 1, Len(tokens) - 1)]

\* clear_crash_file: the file is removed when it exists and os.remove succeeds
ClearCrashFile(file, removable) == IF file.exists /\ removable THEN SentAbsent ELSE file

\* Faulty variant: only the test that crashed last is deselected
BuildPytestCommandLast(test_nodeids, cof, deselect_tests) ==
    [x_flag |-> ~cof, tests |-> test_nodeids,
     deselect |-> IF deselect_tests = <<>> THEN <<>>
                  ELSE <<deselect_tests[Len(deselect_tests)]>>]

\* build_pytest_command: "-x" unless continue_on_fail, all node ids, then one
\* --deselect per entry of deselect_tests, in order
BuildPytestCommand(test_nodeids, cof, deselect_tests) ==
    [x_flag |-> ~cof, tests |-> test_nodeids, deselect |-> deselect_tests]

\* The tests pytest selects for a command: the listed node ids without the
\* deselected ones, in list order.
RECURSIVE Selected(_, _)
Selected(tests, deselect) ==
    IF tests = <<>> THEN <<>>
    ELSE IF Head(tests) \in Range(deselect) THEN Selected(Tail(tests), deselect)
         ELSE <<Head(tests)>> \o Selected(Tail(tests), deselect)

\* check_for_crash: the crash_info (or None) and the sentinel file it leaves
CrashTestClass(id) == IF id = UnknownTest THEN "UnknownClass" ELSE "TestClass"

\* Faulty variant: the status of the sentinel is not looked at
CheckForCrashAnyStatus(file, removable) ==
    IF ~file.exists THEN [info |-> NoCrash, file |-> file]
    ELSE IF ~file.parses THEN [info |-> NoCrash, file |-> ClearCrashFile(file, removable)]
    ELSE IF ~file.start_ok THEN [info |-> NoCrash, file |-> ClearCrashFile(file, removable)]
    ELSE IF file.age < MinCrashAgeMs THEN [info |-> NoCrash, file |-> file]
    ELSE LET id == IF file.nodeid = NoKey THEN UnknownTest ELSE file.nodeid
         IN [info |-> [test_name |-> id, test_class |-> CrashTestClass(id),
                       nodeid |-> id, duration |-> file.age],
             file |-> file]

\* (an unparseable file, or one without a usable start_time, is removed:
\* "try: os.remove ... except: pass")
CheckForCrash(file, removable) ==
    IF ~file.exists THEN [info |-> NoCrash, file |-> file]
    ELSE IF ~file.parses THEN [info |-> NoCrash, file |-> ClearCrashFile(file, removable)]
    ELSE IF file.status # "running" THEN [info |-> NoCrash, file |-> file]
    ELSE IF ~file.start_ok THEN [info |-> NoCrash, file |-> ClearCrashFile(file, removable)]
    ELSE IF file.age < MinCrashAgeMs THEN [info |-> NoCrash, file |-> file]
    ELSE LET id == IF file.nodeid = NoKey THEN UnknownTest ELSE file.nodeid
         IN [info |-> [test_name |-> id, test_class |-> CrashTestClass(id),
                       nodeid |-> id, duration |-> file.age],
             file |-> file]

\* The record append_abort_to_json builds for a crashed test.
\* test_nodeid: a full node id ("tests/...::...") is used as it is, anything
\* else becomes "tests/<testfile>.py::<identifier>", a different string.
IsFullNodeid(id) == id >= 1
PrefixedNodeid(id) == 100 + id
AbortNodeid(id) == IF IsFullNodeid(id) THEN id ELSE PrefixedNodeid(id)

AbortTest(abort_info) ==
    [nodeid |-> AbortNodeid(abort_info.test_name), outcome |-> "failed", aborted |-> TRUE]

\* A report holding only the abort record (no report file, or an unparseable
\* one).  Its "collectors" list holds one collector with outcome "failed" and
\* the node id "".
NewAbortReport(abort_info) ==
    [kind |-> "json", tests |-> <<AbortTest(abort_info)>>, passed |-> 0, failed |-> 1,
     total |-> 1, collected |-> 1, exitcode |-> 1, collector_failed |-> TRUE,
     unskipped_total |-> 1]

\* Faulty variant: the report is always written anew
AppendAbortOverwrite(report, abort_info) == NewAbortReport(abort_info)

\* Faulty variant: the record is appended but the summary is left as it was
AppendAbortNoSummary(report, abort_info) ==
    IF report.kind = "json"
    THEN [report EXCEPT !.tests = Append(@, AbortTest(abort_info)), !.exitcode = 1]
    ELSE NewAbortReport(abort_info)

\* append_abort_to_json: an existing report that parses gets the record and
\* the summary counts ("unskipped_total" only if the key is there, NoKey: it
\* is not); otherwise a new report is written
AppendAbortToJson(report, abort_info) ==
    IF report.kind = "json"
    THEN [report EXCEPT !.tests = Append(@, AbortTest(abort_info)),
                        !.failed = @ + 1, !.total = @ + 1, !.collected = @ + 1,
                        !.unskipped_total = IF @ = NoKey THEN NoKey ELSE @ + 1,
                        !.exitcode = 1]
    ELSE NewAbortReport(abort_info)

\* The report pytest-json-report writes for a finished session: one record per
\* selected test that ran (with -x the session stops at the first failure).
RECURSIVE RanTests(_, _, _)
RanTests(sel, failing, x_flag) ==
    IF sel = <<>> THEN <<>>
    ELSE IF Head(sel) \in failing
         THEN <<[nodeid |-> Head(sel), outcome |-> "failed", aborted |-> FALSE]>>
              \o (IF x_flag THEN <<>> ELSE RanTests(Tail(sel), failing, x_flag))
         ELSE <<[nodeid |-> Head(sel), outcome |-> "passed", aborted |-> FALSE]>>
              \o RanTests(Tail(sel), failing, x_flag)

CountOutcome(tests, o) == Cardinality({i \in 1..Len(tests) : tests[i].outcome = o})

\* pytest's exit code: 0 all passed, 1 some test failed, 5 no test was run
PytestExitCode(sel, failing) ==
    IF sel = <<>> THEN 5 ELSE IF Range(sel) \cap failing # {} THEN 1 ELSE 0

PytestReport(c, failing) ==
    LET sel == Selected(c.tests, c.deselect)
        ran == RanTests(sel, failing, c.x_flag)
    IN [kind |-> "json", tests |-> ran, passed |-> CountOutcome(ran, "passed"),
        failed |-> CountOutcome(ran, "failed"), total |-> Len(ran),
        collected |-> Len(c.tests), exitcode |-> PytestExitCode(sel, failing),
        collector_failed |-> FALSE, unskipped_total |-> NoKey]

\* ------------------------------------------------------------------ state
VARIABLES
    program,            \* "single": run_single_gpu.py, "multi": run_multi_gpu.py
    continue_on_fail,   \* args.continue_on_fail
    parallel,           \* args.parallel (p)
    tests_list,         \* tests_dict: the list of collected node ids of each module
    main_pc,            \* position of the main thread
    queue,              \* the executor's work queue (submitted, not yet started)
    gpu_tokens,         \* available_gpu_tokens
    LAST_CODE,          \* run_single_gpu.LAST_CODE
    ALL_CRASHED_TESTS,  \* run_single_gpu.ALL_CRASHED_TESTS
    exit_code,          \* the status given to sys.exit (NoKey while running)
    pc,                 \* module -> position of its run_test / run_multi_gpu_test
    target_gpu,         \* module -> the token it holds (NoKey: none)
    hip_devices,        \* module -> env_vars["HIP_VISIBLE_DEVICES"]
    crashed_tests,      \* module -> list of crash_info
    tests_to_skip,      \* module -> list of node ids to deselect
    max_retries,        \* module -> len(tests_list)
    retry_count,        \* module -> retries so far
    cmd,                \* module -> the command of the current iteration
    return_code,        \* module -> exit code of its last pytest subprocess
    sentinel,           \* module -> its last_running file
    report,             \* module -> its JSON report file
    abort_idx,          \* module -> crashed tests handed to handle_abort so far
    raising,            \* module -> an exception is propagating out of the body
    invocations,        \* history: module -> pytest invocations its call has started
    run_count,          \* history: module -> times its run function was entered
    last_report,        \* history: module -> the report file as the loop left it
    file_idx,           \* multi: index into sorted(tests_to_run)
    tests_to_run,       \* multi: the (filtered) set of test files
    failed_tests,       \* multi: list of <<test_file, exit_code>>
    passed_tests,       \* multi: list of test files
    all_crashed_tests,  \* multi: main's list of crash_info
    ret,                \* multi: what the call of run_multi_gpu_test gave main
    started,            \* history (multi): test files in the order they were started
    sent_hist,          \* history: module -> what happened to its last_running file
    summary,            \* the totals main prints in the final summary
    cleanups            \* history (multi): module -> cleanup_system calls completed

\* The state of the CI uploaders (upload_pytest_to_db.py, upload_test_to_db.py,
\* upload_to_llama_db.py): one run of the script against the MySQL server.
VARIABLES
    script,             \* which uploader runs ("none": no uploader)
    up_pc,              \* position of the uploader
    up_tests,           \* the tests of the report[s] / the rows parsed from the summary
    db_tests0,          \* history: the committed rows of the tests table before the upload
    db_runs,            \* committed: rows of the runs table written by this upload
    db_tests,           \* committed: rows of the tests table (test ids)
    db_results,         \* committed: result / metrics rows written by this upload
    txn_runs,           \* the open transaction: run rows not yet committed
    txn_tests,          \* the open transaction: new rows of the tests table
    txn_results,        \* the open transaction: result / metrics rows
    batch_i,            \* rows handed to the server so far
    up_error,           \* what the try block raised: "none", "mysql" (a statement or
                        \* the commit), "connect" (llama: the connection), "other"
    rolled_back,        \* history: conn.rollback() was called
    up_exit,            \* the exit status of the process (NoKey while running)
    commits,            \* history: the number of commit() calls issued
    conn,               \* the connection: "none", "open" or "closed"
    cur                 \* the cursor: "none", "open" or "closed"

uploadVars == <<script, up_pc, up_tests, db_tests0, db_runs, db_tests, db_results,
                txn_runs, txn_tests, txn_results, batch_i, up_error, rolled_back,
                up_exit, commits, conn, cur>>

\* No uploader runs.
UploadIdle ==
    /\ script = "none"
    /\ up_pc = "idle"
    /\ up_tests = <<>>
    /\ db_tests0 = {}
    /\ db_runs = 0
    /\ db_tests = {}
    /\ db_results = {}
    /\ txn_runs = 0
    /\ txn_tests = {}
    /\ txn_results = {}
    /\ batch_i = 0
    /\ up_error = "none"
    /\ rolled_back = FALSE
    /\ up_exit = NoKey
    /\ commits = 0
    /\ conn = "none"
    /\ cur = "none"

\* The state of the log-to-trace converters (gdb-sym.py, gdb-sym2.py,
\* unique_probes.py): one run of the script over a log file.
VARIABLES
    tool,               \* which converter runs ("none": no converter)
    p_pc,               \* position of the converter
    line_no,            \* lines of the log read so far
    line,               \* the line read last
    calls,              \* calls: tid -> the last call of the thread (calls[tid][-1])
    kernels,            \* gdb-sym2.py, kernels: func_tag -> the kernel launch
    probes,             \* unique_probes.py, probes: the set of probe names
    parse_exc,          \* the exception that ended the script ("none": none)
    trace_written       \* a trace file has been written

parseVars == <<tool, p_pc, line_no, line, calls, kernels, probes, parse_exc,
               trace_written>>

\* Thread ids and function tags of the log lines (0 is not a valid one).
Tids == 1..2
Tags == 1..MaxTs

\* "tid not in calls", "func_tag not in kernels"
NoCall == [addr |-> 0, probe |-> "", ts_start |-> 0, ts_end |-> 0, caller |-> 0]
NoLine == [kind |-> "none", probe |-> "", depth |-> 0, addr |-> 0, callee |-> 0, tid |-> 0,
           ts |-> 0, elapsed |-> 0, rest_ok |-> TRUE, tag |-> 0]

\* No converter runs.
ParseIdle ==
    /\ tool = "none"
    /\ p_pc = "idle"
    /\ line_no = 0
    /\ line = NoLine
    /\ calls = [t \in Tids |-> NoCall]
    /\ kernels = [g \in Tags |-> NoCall]
    /\ probes = {}
    /\ parse_exc = "none"
    /\ trace_written = FALSE

toolVars == <<uploadVars, parseVars>>

orchVars == <<program, continue_on_fail, parallel, tests_list, main_pc, queue, gpu_tokens,
          LAST_CODE, ALL_CRASHED_TESTS, exit_code, pc, target_gpu, hip_devices,
          crashed_tests, tests_to_skip, max_retries, retry_count, cmd, return_code,
          sentinel, report, abort_idx, raising, invocations, run_count,
          last_report, file_idx, tests_to_run, failed_tests, passed_tests,
          all_crashed_tests, ret, started, sent_hist,
          summary, cleanups>>

vars == <<orchVars, toolVars>>

\* What no step of the orchestrators changes: their inputs and the state of
\* the other scripts.
inputVars == <<program, continue_on_fail, parallel, tests_list, tests_to_run, toolVars>>
multiVars == <<file_idx, failed_tests, passed_tests, all_crashed_tests, ret, started>>
poolVars == <<queue, gpu_tokens, LAST_CODE, ALL_CRASHED_TESTS>>

\* Lists of node ids 1..n, and the dictionaries of at most NumModules
\* modules holding at most MaxTests tests together.  collect_testmodules
\* gives every module at least one test; a multi GPU test file may have none.
NodeIds(n) == [i \in 1..n |-> i]
RECURSIVE SumLen(_)
SumLen(d) == IF d = <<>> THEN 0 ELSE Len(Head(d)) + SumLen(Tail(d))
TestsDicts(least) ==
    {d \in UNION {[1..k -> {NodeIds(n) : n \in least..MaxTests}] : k \in 1..NumModules} :
        SumLen(d) <= MaxTests}

\* sorted(tests_to_run)
RECURSIVE SortedList(_)
SortedList(S) ==
    IF S = {} THEN <<>>
    ELSE LET least == CHOOSE x \in S : \A y \in S : x <= y
         IN <<least>> \o SortedList(S \ {least})

\* No call of run_multi_gpu_test is waiting to be handled by main.
NoRet == [how |-> "none", exit_code |-> 0, crashed_tests |-> <<>>]

NoCmd == [x_flag |-> FALSE, tests |-> <<>>, deselect |-> <<>>]

\* Positions at which a module's run_test holds a GPU token.
Holding == {"setup", "loop", "pytest", "check", "abort", "release"}
\* Positions at which a worker thread is busy with the module.
Busy == Holding \cup {"acquire"}
Finished == {"done", "raised"}

\* run_single_gpu.py: main has collected tests_dict and run_parallel has built
\* the token list and the executor.  run_multi_gpu.py: main has parsed its
\* arguments and filtered MULTI_GPU_TESTS.
Init ==
    /\ program \in {"single", "multi"}
    /\ continue_on_fail \in BOOLEAN
    /\ IF program = "single"
       THEN /\ parallel \in 1..NumModules
            /\ tests_list \in TestsDicts(1)
            /\ tests_to_run = {}
            /\ main_pc = "submit"
            /\ gpu_tokens = RangeList(parallel)
       ELSE /\ parallel = 1
            /\ tests_list \in TestsDicts(0)
            /\ tests_to_run = DOMAIN tests_list
            /\ main_pc = "loop"
            /\ gpu_tokens = <<>>
    /\ queue = <<>>
    /\ LAST_CODE = 0
    /\ ALL_CRASHED_TESTS = <<>>
    /\ exit_code = NoKey
    /\ pc = [m \in Modules |-> "new"]
    /\ target_gpu = [m \in Modules |-> NoKey]
    /\ hip_devices = [m \in Modules |-> NoKey]
    /\ crashed_tests = [m \in Modules |-> <<>>]
    /\ tests_to_skip = [m \in Modules |-> <<>>]
    /\ max_retries = [m \in Modules |-> 0]
    /\ retry_count = [m \in Modules |-> 0]
    /\ cmd = [m \in Modules |-> NoCmd]
    /\ return_code = [m \in Modules |-> 0]
    /\ sentinel = [m \in Modules |-> SentAbsent]
    /\ report = [m \in Modules |-> NoReport]
    /\ abort_idx = [m \in Modules |-> 0]
    /\ raising = [m \in Modules |-> FALSE]
    /\ invocations = [m \in Modules |-> 0]
    /\ run_count = [m \in Modules |-> 0]
    /\ last_report = [m \in Modules |-> NoReport]
    /\ file_idx = 0
    /\ failed_tests = <<>>
    /\ passed_tests = <<>>
    /\ all_crashed_tests = <<>>
    /\ ret = NoRet
    /\ started = <<>>
    /\ sent_hist = [m \in Modules |-> NoHist]
    /\ summary = NoSummary
    /\ cleanups = [m \in Modules |-> 0]
    /\ UploadIdle
    /\ ParseIdle

\* No orchestrator runs.
OrchIdle ==
    /\ program = "none"
    /\ continue_on_fail = FALSE
    /\ parallel = 1
    /\ tests_list = <<>>
    /\ tests_to_run = {}
    /\ main_pc = "idle"
    /\ gpu_tokens = <<>>
    /\ queue = <<>>
    /\ LAST_CODE = 0
    /\ ALL_CRASHED_TESTS = <<>>
    /\ exit_code = NoKey
    /\ pc = [m \in Modules |-> "new"]
    /\ target_gpu = [m \in Modules |-> NoKey]
    /\ hip_devices = [m \in Modules |-> NoKey]
    /\ crashed_tests = [m \in Modules |-> <<>>]
    /\ tests_to_skip = [m \in Modules |-> <<>>]
    /\ max_retries = [m \in Modules |-> 0]
    /\ retry_count = [m \in Modules |-> 0]
    /\ cmd = [m \in Modules |-> NoCmd]
    /\ return_code = [m \in Modules |-> 0]
    /\ sentinel = [m \in Modules |-> SentAbsent]
    /\ report = [m \in Modules |-> NoReport]
    /\ abort_idx = [m \in Modules |-> 0]
    /\ raising = [m \in Modules |-> FALSE]
    /\ invocations = [m \in Modules |-> 0]
    /\ run_count = [m \in Modules |-> 0]
    /\ last_report = [m \in Modules |-> NoReport]
    /\ file_idx = 0
    /\ failed_tests = <<>>
    /\ passed_tests = <<>>
    /\ all_crashed_tests = <<>>
    /\ ret = NoRet
    /\ started = <<>>
    /\ sent_hist = [m \in Modules |-> NoHist]
    /\ summary = NoSummary
    /\ cleanups = [m \in Modules |-> 0]

\* ------------------------------------------------- run_single_gpu.py: pool
\* run_parallel: executor.submit(run_test, ...) for the next item of tests_dict
Submit(m) ==
    /\ program = "single"
    /\ main_pc = "submit"
    /\ pc[m] = "new"
    /\ \A k \in Modules : k < m => pc[k] # "new"
    /\ pc' = [pc EXCEPT ![m] = "queued"]
    /\ queue' = Append(queue, m)
    /\ m \in DOMAIN tests_list
    /\ main_pc' = IF m = Len(tests_list) THEN "shutdown" ELSE "submit"
    /\ UNCHANGED <<inputVars, cleanups, summary, sent_hist, multiVars, gpu_tokens, LAST_CODE, ALL_CRASHED_TESTS,
                   exit_code, target_gpu, hip_devices, crashed_tests, tests_to_skip,
                   max_retries, retry_count, cmd, return_code, sentinel, report,
                   abort_idx, raising, invocations, run_count, last_report>>

\* Faulty variant: the executor has a thread for every work item
StartRunUnbounded(m) ==
    /\ program = "single"
    /\ queue # <<>>
    /\ Head(queue) = m
    /\ queue' = Tail(queue)
    /\ pc' = [pc EXCEPT ![m] = "acquire"]
    /\ run_count' = [run_count EXCEPT ![m] = @ + 1]
    /\ UNCHANGED <<inputVars, cleanups, summary, sent_hist, multiVars, main_pc, gpu_tokens, LAST_CODE,
                   ALL_CRASHED_TESTS, exit_code, target_gpu, hip_devices, crashed_tests,
                   tests_to_skip, max_retries, retry_count, cmd, return_code, sentinel,
                   report, abort_idx, raising, invocations, last_report>>

\* ThreadPoolExecutor(max_workers=p): one of at most p worker threads takes
\* the oldest queued work item and calls run_test.
StartRun(m) ==
    /\ program = "single"
    /\ queue # <<>>
    /\ Head(queue) = m
    /\ Cardinality({k \in Modules : pc[k] \in Busy}) < parallel
    /\ queue' = Tail(queue)
    /\ pc' = [pc EXCEPT ![m] = "acquire"]
    /\ run_count' = [run_count EXCEPT ![m] = @ + 1]
    /\ UNCHANGED <<inputVars, cleanups, summary, sent_hist, multiVars, main_pc, gpu_tokens, LAST_CODE,
                   ALL_CRASHED_TESTS, exit_code, target_gpu, hip_devices, crashed_tests,
                   tests_to_skip, max_retries, retry_count, cmd, return_code, sentinel,
                   report, abort_idx, raising, invocations, last_report>>

\* run_test, "with GPU_LOCK": return when LAST_CODE is set, else pop a token.
\* pop() on an empty list raises IndexError before the try block is entered.
Acquire(m) ==
    /\ pc[m] = "acquire"
    /\ IF LAST_CODE # 0
       THEN /\ pc' = [pc EXCEPT ![m] = "done"]
            /\ UNCHANGED <<gpu_tokens, target_gpu>>
       ELSE IF gpu_tokens = <<>>
       THEN /\ pc' = [pc EXCEPT ![m] = "raised"]
            /\ UNCHANGED <<gpu_tokens, target_gpu>>
       ELSE /\ target_gpu' = [target_gpu EXCEPT ![m] = PopToken(gpu_tokens).token]
            /\ gpu_tokens' = PopToken(gpu_tokens).rest
            /\ pc' = [pc EXCEPT ![m] = "setup"]
    /\ UNCHANGED <<inputVars, cleanups, summary, sent_hist, multiVars, main_pc, queue, LAST_CODE, ALL_CRASHED_TESTS,
                   exit_code, hip_devices, crashed_tests, tests_to_skip, max_retries,
                   retry_count, cmd, return_code, sentinel, report, abort_idx, raising,
                   invocations, run_count, last_report>>

\* Faulty variant: run_test does not clear the stale crash detection file
SetupNoClear(m) ==
    /\ pc[m] = "setup"
    /\ hip_devices' = [hip_devices EXCEPT ![m] = target_gpu[m]]
    /\ \E stale \in StaleSentinels :
         sentinel' = [sentinel EXCEPT ![m] = stale]
    /\ crashed_tests' = [crashed_tests EXCEPT ![m] = <<>>]
    /\ tests_to_skip' = [tests_to_skip EXCEPT ![m] = <<>>]
    /\ max_retries' = [max_retries EXCEPT ![m] = Len(tests_list[m])]
    /\ retry_count' = [retry_count EXCEPT ![m] = 0]
    /\ pc' = [pc EXCEPT ![m] = "loop"]
    /\ UNCHANGED <<inputVars, cleanups, summary, sent_hist, multiVars, poolVars, main_pc, exit_code, target_gpu, cmd,
                   return_code, report, abort_idx, raising, invocations, run_count, last_report>>

\* run_test up to the while loop: env_vars, clear_crash_file, the loop's locals
Setup(m) ==
    /\ pc[m] = "setup"
    /\ hip_devices' = [hip_devices EXCEPT ![m] = target_gpu[m]]
    /\ \E stale \in StaleSentinels, removable \in BOOLEAN :
         sentinel' = [sentinel EXCEPT ![m] = ClearCrashFile(stale, removable)]
    /\ sent_hist' = [sent_hist EXCEPT ![m] = [@ EXCEPT !.cleared = TRUE, !.fresh = FALSE]]
    /\ crashed_tests' = [crashed_tests EXCEPT ![m] = <<>>]
    /\ tests_to_skip' = [tests_to_skip EXCEPT ![m] = <<>>]
    /\ max_retries' = [max_retries EXCEPT ![m] = Len(tests_list[m])]
    /\ retry_count' = [retry_count EXCEPT ![m] = 0]
    /\ pc' = [pc EXCEPT ![m] = "loop"]
    /\ UNCHANGED <<inputVars, cleanups, summary, multiVars, poolVars, main_pc, exit_code, target_gpu, cmd,
                   return_code, report, abort_idx, raising, invocations, run_count, last_report>>

\* --------------------------------------------- run_test: the recovery loop
\* "while retry_count <= max_retries": build the command and start pytest
StartPytest(m) ==
    /\ program = "single"
    /\ pc[m] = "loop"
    /\ IF retry_count[m] <= max_retries[m]
       THEN /\ cmd' = [cmd EXCEPT ![m] = BuildPytestCommand(tests_list[m], continue_on_fail,
                                                            tests_to_skip[m])]
            /\ invocations' = [invocations EXCEPT ![m] = @ + 1]
            /\ sent_hist' = [sent_hist EXCEPT ![m].clean = (sentinel[m] = SentAbsent)]
            /\ pc' = [pc EXCEPT ![m] = "pytest"]
            /\ UNCHANGED last_report
       ELSE /\ pc' = [pc EXCEPT ![m] = "abort"]
            /\ last_report' = [last_report EXCEPT ![m] = report[m]]
            /\ sent_hist' = [sent_hist EXCEPT ![m] = NoHist]
            /\ UNCHANGED <<cmd, invocations>>
    /\ UNCHANGED <<inputVars, cleanups, summary, multiVars, poolVars, main_pc, exit_code, target_gpu,
                   hip_devices, crashed_tests, tests_to_skip, max_retries, retry_count,
                   return_code, sentinel, report, abort_idx, raising, run_count>>

\* Faulty variant: cleanup_system() is called at the end of the try body, not
\* in a finally block
AfterPytestNoFinally(how) ==
    IF program = "single" THEN (IF how = "raise" THEN "release" ELSE "check")
    ELSE (IF how = "exit" THEN "check" ELSE "abort")

\* The pytest subprocess (environment).  Where control goes next:
\* run_shell_command returns the exit code to run_test (a timeout included);
\* in run_multi_gpu_test a timeout or an OSError is an exception handled by
\* "break", with cleanup_system() in the finally block.
AfterPytest(how) ==
    IF program = "single" THEN (IF how = "raise" THEN "release" ELSE "check")
    ELSE (IF how = "exit" THEN "check" ELSE "cleanup_break")

\* pytest runs the selected tests to the end, writes the report, and its
\* conftest leaves no sentinel in state "running" behind (a sentinel that
\* cannot be removed stays as it is).
PytestCompletes(m) ==
    /\ pc[m] = "pytest"
    /\ LET sel == Selected(cmd[m].tests, cmd[m].deselect)
       IN \E failing \in {{}} \cup {{sel[1]} : i \in {1} \cap DOMAIN sel} :
            /\ report' = [report EXCEPT ![m] = PytestReport(cmd[m], failing)]
            /\ return_code' = [return_code EXCEPT ![m] = PytestExitCode(sel, failing)]
    /\ \E s \in {SentAbsent, SentFinished, sentinel[m]} :
         /\ sentinel' = [sentinel EXCEPT ![m] = s]
         /\ sent_hist' = [sent_hist EXCEPT ![m] =
                             [@ EXCEPT !.cleared = FALSE,
                                       !.fresh = (s # sentinel[m])]]
    /\ pc' = [pc EXCEPT ![m] = AfterPytest("exit")]
    /\ UNCHANGED <<inputVars, cleanups, summary, multiVars, poolVars, main_pc, exit_code, target_gpu,
                   hip_devices, crashed_tests, tests_to_skip, max_retries, retry_count,
                   cmd, abort_idx, raising, invocations, run_count, last_report>>

\* The process dies (segfault, abort) while a selected test is running: no
\* report is written and the sentinel names the test, or has no node id.
PytestCrashes(m) ==
    /\ pc[m] = "pytest"
    /\ \E t \in Range(Selected(cmd[m].tests, cmd[m].deselect)) :
         \E s \in {SentRunning(MinCrashAgeMs - 1, t), SentRunning(MinCrashAgeMs, t),
                    SentRunning(MinCrashAgeMs, NoKey)} :
           sentinel' = [sentinel EXCEPT ![m] = s]
    /\ sent_hist' = [sent_hist EXCEPT ![m] = [@ EXCEPT !.cleared = FALSE, !.fresh = TRUE]]
    /\ return_code' = [return_code EXCEPT ![m] = -11]
    /\ pc' = [pc EXCEPT ![m] = AfterPytest("exit")]
    /\ UNCHANGED <<inputVars, cleanups, summary, multiVars, poolVars, main_pc, exit_code, target_gpu,
                   hip_devices, crashed_tests, tests_to_skip, max_retries, retry_count,
                   cmd, report, abort_idx, raising, invocations, run_count, last_report>>

\* The process dies outside a test (at import, or while it writes a file).
PytestKilled(m) ==
    /\ pc[m] = "pytest"
    /\ \E s \in {SentAbsent, SentGarbage, SentNoStart} :
         sentinel' = [sentinel EXCEPT ![m] = s]
    /\ sent_hist' = [sent_hist EXCEPT ![m] = [@ EXCEPT !.cleared = FALSE, !.fresh = TRUE]]
    /\ \E r \in {report[m], CorruptReport} : report' = [report EXCEPT ![m] = r]
    /\ return_code' = [return_code EXCEPT ![m] = -11]
    /\ pc' = [pc EXCEPT ![m] = AfterPytest("exit")]
    /\ UNCHANGED <<inputVars, cleanups, summary, multiVars, poolVars, main_pc, exit_code, target_gpu,
                   hip_devices, crashed_tests, tests_to_skip, max_retries, retry_count,
                   cmd, abort_idx, raising, invocations, run_count, last_report>>

\* Faulty variant: a timeout is handled like an exit code, also in
\* run_multi_gpu_test
PytestTimeoutChecked(m) ==
    /\ pc[m] = "pytest"
    /\ \E t \in Range(Selected(cmd[m].tests, cmd[m].deselect)) :
         sentinel' = [sentinel EXCEPT ![m] = SentRunning(MinCrashAgeMs, t)]
    /\ sent_hist' = [sent_hist EXCEPT ![m] = [@ EXCEPT !.cleared = FALSE, !.fresh = TRUE]]
    /\ return_code' = [return_code EXCEPT ![m] = TimeoutCode]
    /\ pc' = [pc EXCEPT ![m] = "check"]
    /\ UNCHANGED <<inputVars, cleanups, summary, multiVars, poolVars, main_pc, exit_code, target_gpu,
                   hip_devices, crashed_tests, tests_to_skip, max_retries, retry_count,
                   cmd, report, abort_idx, raising, invocations, run_count, last_report>>

\* The flat timeout (3600 s) expires while a selected test hangs.
PytestTimeout(m) ==
    /\ pc[m] = "pytest"
    /\ \E t \in Range(Selected(cmd[m].tests, cmd[m].deselect)) :
         sentinel' = [sentinel EXCEPT ![m] = SentRunning(MinCrashAgeMs, t)]
    /\ sent_hist' = [sent_hist EXCEPT ![m] =
                        IF AfterPytest("timeout") = "check"
                        THEN [@ EXCEPT !.cleared = FALSE, !.fresh = TRUE]
                        ELSE NoHist]
    /\ return_code' = [return_code EXCEPT ![m] = TimeoutCode]
    /\ pc' = [pc EXCEPT ![m] = AfterPytest("timeout")]
    /\ UNCHANGED <<inputVars, cleanups, summary, multiVars, poolVars, main_pc, exit_code, target_gpu,
                   hip_devices, crashed_tests, tests_to_skip, max_retries, retry_count,
                   cmd, report, abort_idx, raising, invocations, run_count, last_report>>

\* subprocess.run raises (OSError: the process cannot be started).
PytestRaises(m) ==
    /\ pc[m] = "pytest"
    /\ raising' = [raising EXCEPT ![m] = (program = "single")]
    /\ sent_hist' = [sent_hist EXCEPT ![m] = NoHist]
    /\ pc' = [pc EXCEPT ![m] = AfterPytest("raise")]
    /\ UNCHANGED <<inputVars, cleanups, summary, multiVars, poolVars, main_pc, exit_code, target_gpu,
                   hip_devices, crashed_tests, tests_to_skip, max_retries, retry_count,
                   cmd, return_code, sentinel, report, abort_idx, invocations, run_count, last_report>>

\* Faulty variant: retry_count is never incremented
CheckCrashNoCount(m) ==
    /\ program = "single"
    /\ pc[m] = "check"
    /\ \E rm1 \in BOOLEAN, rm2 \in BOOLEAN :
         LET res == CheckForCrash(sentinel[m], rm1)
             crash_info == res.info
         IN IF crash_info = NoCrash \/ crash_info.nodeid \in Range(tests_to_skip[m])
            THEN /\ sentinel' = [sentinel EXCEPT ![m] = res.file]
                 /\ pc' = [pc EXCEPT ![m] = "abort"]
                 /\ last_report' = [last_report EXCEPT ![m] = report[m]]
                 /\ sent_hist' = [sent_hist EXCEPT ![m] = NoHist]
                 /\ UNCHANGED <<crashed_tests, tests_to_skip, retry_count>>
            ELSE /\ crashed_tests' = [crashed_tests EXCEPT ![m] = Append(@, crash_info)]
                 /\ tests_to_skip' = [tests_to_skip EXCEPT ![m] = Append(@, crash_info.nodeid)]
                 /\ sentinel' = [sentinel EXCEPT ![m] = ClearCrashFile(res.file, rm2)]
                 /\ sent_hist' = [sent_hist EXCEPT ![m] =
                                     IF retry_count[m] + 1 > max_retries[m] THEN NoHist
                                     ELSE [cleared |-> TRUE, clean |-> FALSE,
                                           fresh |-> FALSE]]
                 /\ UNCHANGED retry_count
                 /\ IF retry_count[m] > max_retries[m]
                    THEN /\ pc' = [pc EXCEPT ![m] = "abort"]
                         /\ last_report' = [last_report EXCEPT ![m] = report[m]]
                    ELSE /\ pc' = [pc EXCEPT ![m] = "loop"]
                         /\ UNCHANGED last_report
    /\ UNCHANGED <<inputVars, cleanups, summary, multiVars, poolVars, main_pc, exit_code, target_gpu,
                   hip_devices, max_retries, cmd, return_code, report, abort_idx, raising,
                   invocations, run_count>>

\* run_test after run_shell_command: check_for_crash and the bookkeeping of
\* the loop body, up to the next evaluation of the loop condition or a break
CheckCrash(m) ==
    /\ program = "single"
    /\ pc[m] = "check"
    /\ \E rm1 \in BOOLEAN, rm2 \in BOOLEAN :
         LET res == CheckForCrash(sentinel[m], rm1)
             crash_info == res.info
         IN IF crash_info = NoCrash \/ crash_info.nodeid \in Range(tests_to_skip[m])
            THEN /\ sentinel' = [sentinel EXCEPT ![m] = res.file]
                 /\ pc' = [pc EXCEPT ![m] = "abort"]
                 /\ last_report' = [last_report EXCEPT ![m] = report[m]]
                 /\ sent_hist' = [sent_hist EXCEPT ![m] = NoHist]
                 /\ UNCHANGED <<crashed_tests, tests_to_skip, retry_count>>
            ELSE /\ crashed_tests' = [crashed_tests EXCEPT ![m] = Append(@, crash_info)]
                 /\ tests_to_skip' = [tests_to_skip EXCEPT ![m] = Append(@, crash_info.nodeid)]
                 /\ sentinel' = [sentinel EXCEPT ![m] = ClearCrashFile(res.file, rm2)]
                 /\ sent_hist' = [sent_hist EXCEPT ![m] =
                                     IF retry_count[m] + 1 > max_retries[m] THEN NoHist
                                     ELSE [cleared |-> TRUE, clean |-> FALSE,
                                           fresh |-> FALSE]]
                 /\ retry_count' = [retry_count EXCEPT ![m] = @ + 1]
                 /\ IF retry_count[m] + 1 > max_retries[m]
                    THEN /\ pc' = [pc EXCEPT ![m] = "abort"]
                         /\ last_report' = [last_report EXCEPT ![m] = report[m]]
                    ELSE /\ pc' = [pc EXCEPT ![m] = "loop"]
                         /\ UNCHANGED last_report
    /\ UNCHANGED <<inputVars, cleanups, summary, multiVars, poolVars, main_pc, exit_code, target_gpu,
                   hip_devices, max_retries, cmd, return_code, report, abort_idx, raising,
                   invocations, run_count>>

\* handle_abort, called with crash_info: remove the sentinel if it exists,
\* then append_abort_to_json (append_abort_to_html edits the HTML report,
\* which is not part of this model)
HandleAbort(file, rep, crash_info, removable) ==
    [file |-> ClearCrashFile(file, removable), report |-> AppendAbortToJson(rep, crash_info)]

\* "for crash_info in crashed_tests: handle_abort(...)": one iteration
AbortNext(m) ==
    /\ pc[m] = "abort"
    /\ abort_idx[m] < Len(crashed_tests[m])
    /\ \E removable \in BOOLEAN :
         LET res == HandleAbort(sentinel[m], report[m], crashed_tests[m][abort_idx[m] + 1],
                                removable)
         IN /\ sentinel' = [sentinel EXCEPT ![m] = res.file]
            /\ report' = [report EXCEPT ![m] = res.report]
    /\ abort_idx' = [abort_idx EXCEPT ![m] = @ + 1]
    /\ UNCHANGED <<inputVars, cleanups, summary, sent_hist, multiVars, poolVars, main_pc, exit_code, pc, target_gpu,
                   hip_devices, crashed_tests, tests_to_skip, max_retries, retry_count,
                   cmd, return_code, raising, invocations, run_count,
                   last_report>>

\* run_test after the for loop: the summary and, "with GPU_LOCK",
\* ALL_CRASHED_TESTS.extend(crashed_tests) when there are any
Summary(m) ==
    /\ program = "single"
    /\ pc[m] = "abort"
    /\ abort_idx[m] = Len(crashed_tests[m])
    /\ ALL_CRASHED_TESTS' = ALL_CRASHED_TESTS \o crashed_tests[m]
    /\ pc' = [pc EXCEPT ![m] = "release"]
    /\ UNCHANGED <<inputVars, cleanups, summary, sent_hist, multiVars, main_pc, queue, gpu_tokens, LAST_CODE, exit_code,
                   target_gpu, hip_devices, crashed_tests, tests_to_skip, max_retries,
                   retry_count, cmd, return_code, sentinel, report, abort_idx, raising,
                   invocations, run_count, last_report>>

\* The locals of a call are gone when it ends.
DropLocals(m) ==
    /\ target_gpu' = [target_gpu EXCEPT ![m] = NoKey]
    /\ hip_devices' = [hip_devices EXCEPT ![m] = NoKey]
    /\ crashed_tests' = [crashed_tests EXCEPT ![m] = <<>>]
    /\ tests_to_skip' = [tests_to_skip EXCEPT ![m] = <<>>]
    /\ max_retries' = [max_retries EXCEPT ![m] = 0]
    /\ retry_count' = [retry_count EXCEPT ![m] = 0]
    /\ cmd' = [cmd EXCEPT ![m] = NoCmd]
    /\ return_code' = [return_code EXCEPT ![m] = 0]
    /\ abort_idx' = [abort_idx EXCEPT ![m] = 0]
    /\ raising' = [raising EXCEPT ![m] = FALSE]
    /\ invocations' = [invocations EXCEPT ![m] = 0]
    /\ last_report' = [last_report EXCEPT ![m] = NoReport]
    /\ sent_hist' = [sent_hist EXCEPT ![m] = NoHist]
    /\ cleanups' = [cleanups EXCEPT ![m] = 0]

\* Faulty variant: the token is returned at the end of the body, not in a finally block
ReleaseNoFinally(m) ==
    /\ pc[m] = "release"
    /\ gpu_tokens' = IF raising[m] THEN gpu_tokens ELSE Append(gpu_tokens, target_gpu[m])
    /\ pc' = [pc EXCEPT ![m] = IF raising[m] THEN "raised" ELSE "done"]
    /\ DropLocals(m)
    /\ UNCHANGED <<inputVars, summary, multiVars, main_pc, queue, LAST_CODE, ALL_CRASHED_TESTS,
                   exit_code, sentinel, report, run_count>>

\* run_test, "finally: with GPU_LOCK: gpu_tokens.append(target_gpu)"; the
\* task ends, by return or with the exception of the body
Release(m) ==
    /\ pc[m] = "release"
    /\ gpu_tokens' = Append(gpu_tokens, target_gpu[m])
    /\ pc' = [pc EXCEPT ![m] = IF raising[m] THEN "raised" ELSE "done"]
    /\ DropLocals(m)
    /\ UNCHANGED <<inputVars, summary, multiVars, main_pc, queue, LAST_CODE, ALL_CRASHED_TESTS,
                   exit_code, sentinel, report, run_count>>

\* ------------------------------------------------ run_single_gpu.py: main
\* Faulty variant: shutdown(wait=False)
ShutdownNoWait ==
    /\ program = "single"
    /\ main_pc = "shutdown"
    /\ main_pc' = "report"
    /\ UNCHANGED <<inputVars, cleanups, summary, sent_hist, multiVars, poolVars, exit_code, pc, target_gpu, hip_devices,
                   crashed_tests, tests_to_skip, max_retries, retry_count, cmd,
                   return_code, sentinel, report, abort_idx, raising, invocations,
                   run_count, last_report>>

\* run_parallel: executor.shutdown(wait=True) returns when every task ended
Shutdown ==
    /\ program = "single"
    /\ main_pc = "shutdown"
    /\ \A m \in DOMAIN tests_list : pc[m] \in Finished
    /\ main_pc' = "report"
    /\ UNCHANGED <<inputVars, cleanups, summary, sent_hist, multiVars, poolVars, exit_code, pc, target_gpu, hip_devices,
                   crashed_tests, tests_to_skip, max_retries, retry_count, cmd,
                   return_code, sentinel, report, abort_idx, raising, invocations,
                   run_count, last_report>>

\* ------------------------------------------------- main: the final summary
\* combine_json_reports: the reports of the modules, read with json.load.  A
\* report that does not parse ends generate_final_report with an exception,
\* and no final_compiled_report.json is written.
ReportFiles == {m \in DOMAIN tests_list : report[m].kind # "absent"}
CombinedReadable == \A m \in ReportFiles : report[m].kind = "json"

\* The in-memory list of crashes of the live run.
LiveCrashes == IF program = "single" THEN ALL_CRASHED_TESTS ELSE all_crashed_tests

\* "Detect crashes from the JSON report itself": the node ids of the failed
\* records whose longrepr holds "Test aborted: Test crashed".
CrashedFromReport ==
    UNION {{<<m, i>> : i \in {j \in 1..Len(report[m].tests) :
                                /\ report[m].tests[j].outcome = "failed"
                                /\ report[m].tests[j].aborted}} : m \in ReportFiles}

\* crashes_to_use, as total_crashed and crashed_nodeids
TotalCrashed ==
    IF LiveCrashes # <<>> THEN Len(LiveCrashes) ELSE Cardinality(CrashedFromReport)
CrashedNodeids ==
    IF LiveCrashes # <<>> THEN {LiveCrashes[i].nodeid : i \in 1..Len(LiveCrashes)}
    ELSE {report[x[1]].tests[x[2]].nodeid : x \in CrashedFromReport}

\* collection_error_files: the node ids of the collectors with outcome
\* "failed".  The only such node id is "", which is a substring of every
\* report's root, so one failed collector makes the loop skip the failed
\* count of every report.
CollectionErrors == {m \in ReportFiles : report[m].collector_failed}

\* The failed records of a report that main counts under Failed.
ReportFailed(m) ==
    IF CollectionErrors # {} \/ report[m].failed = 0 THEN 0
    ELSE Cardinality({i \in 1..Len(report[m].tests) :
                        /\ report[m].tests[i].outcome = "failed"
                        /\ report[m].tests[i].nodeid \notin CrashedNodeids})

RECURSIVE SumOver(_, _)
SumOver(S, n) ==
    IF n = 0 THEN 0
    ELSE (IF n \in S THEN ReportFailed(n) ELSE 0) + SumOver(S, n - 1)

RECURSIVE SumPassed(_, _)
SumPassed(S, n) ==
    IF n = 0 THEN 0
    ELSE (IF n \in S THEN report[n].passed ELSE 0) + SumPassed(S, n - 1)

\* main, "Parse the final compiled report for statistics"
FinalSummary ==
    IF ~CombinedReadable THEN NoSummary
    ELSE [printed |-> TRUE,
          passed |-> SumPassed(ReportFiles, NumModules),
          failed |-> SumOver(ReportFiles, NumModules),
          errors |-> Cardinality(CollectionErrors),
          crashed |-> TotalCrashed]

\* main (of either script): generate_final_report() and the final summary
GenerateFinalReport ==
    /\ main_pc = "report"
    /\ main_pc' = "exit"
    /\ summary' = FinalSummary
    /\ UNCHANGED <<inputVars, cleanups, sent_hist, multiVars, poolVars, exit_code, pc, target_gpu, hip_devices,
                   crashed_tests, tests_to_skip, max_retries, retry_count, cmd,
                   return_code, sentinel, report, abort_idx, raising, invocations,
                   run_count, last_report>>

\* main: sys.exit(LAST_CODE)
Exit ==
    /\ program = "single"
    /\ main_pc = "exit"
    /\ exit_code = NoKey
    /\ exit_code' = LAST_CODE
    /\ UNCHANGED <<inputVars, cleanups, summary, sent_hist, multiVars, poolVars, main_pc, pc, target_gpu, hip_devices,
                   crashed_tests, tests_to_skip, max_retries, retry_count, cmd,
                   return_code, sentinel, report, abort_idx, raising, invocations,
                   run_count, last_report>>

\* -------------------------------------------------- run_multi_gpu.py: main
localVars == <<target_gpu, hip_devices, crashed_tests, tests_to_skip, max_retries,
               retry_count, cmd, return_code, abort_idx, raising, invocations,
               last_report>>

\* main, "for i, test_file in enumerate(sorted(tests_to_run), 1)": the call of
\* run_multi_gpu_test for the next file
StartFile(f) ==
    /\ program = "multi"
    /\ main_pc = "loop"
    /\ file_idx < Len(SortedList(tests_to_run))
    /\ f = SortedList(tests_to_run)[file_idx + 1]
    /\ file_idx' = file_idx + 1
    /\ started' = Append(started, f)
    /\ run_count' = [run_count EXCEPT ![f] = @ + 1]
    /\ pc' = [pc EXCEPT ![f] = "collect"]
    /\ main_pc' = "running"
    /\ UNCHANGED <<inputVars, cleanups, summary, sent_hist, poolVars, localVars, exit_code, sentinel, report,
                   failed_tests, passed_tests, all_crashed_tests, ret>>

\* run_multi_gpu_test: check_system_resources runs "free -g"; an OSError of
\* that subprocess.run (free is not installed) is not caught there
CollectRaises(f) ==
    /\ program = "multi"
    /\ pc[f] = "collect"
    /\ pc' = [pc EXCEPT ![f] = "raised"]
    /\ ret' = [how |-> "raise", exit_code |-> 0, crashed_tests |-> <<>>]
    /\ UNCHANGED <<inputVars, cleanups, summary, sent_hist, poolVars, localVars, main_pc, exit_code, sentinel, report,
                   run_count, file_idx, failed_tests, passed_tests, all_crashed_tests,
                   started>>

\* run_multi_gpu_test: clear_crash_file, then "pytest --collect-only" fails
\* with an exception: "return (1, [])"
CollectFails(f) ==
    /\ program = "multi"
    /\ pc[f] = "collect"
    /\ \E stale \in StaleSentinels, removable \in BOOLEAN :
         sentinel' = [sentinel EXCEPT ![f] = ClearCrashFile(stale, removable)]
    /\ sent_hist' = [sent_hist EXCEPT ![f] = [@ EXCEPT !.cleared = TRUE, !.fresh = FALSE]]
    /\ pc' = [pc EXCEPT ![f] = "done"]
    /\ ret' = [how |-> "return", exit_code |-> 1, crashed_tests |-> <<>>]
    /\ UNCHANGED <<inputVars, cleanups, summary, poolVars, localVars, main_pc, exit_code, report, run_count,
                   file_idx, failed_tests, passed_tests, all_crashed_tests, started>>

\* run_multi_gpu_test up to the while loop: clear_crash_file, the collection
\* ("return (0, [])" when no test is collected) and the loop's locals
Collect(f) ==
    /\ program = "multi"
    /\ pc[f] = "collect"
    /\ \E stale \in StaleSentinels, removable \in BOOLEAN :
         sentinel' = [sentinel EXCEPT ![f] = ClearCrashFile(stale, removable)]
    /\ sent_hist' = [sent_hist EXCEPT ![f] = [@ EXCEPT !.cleared = TRUE, !.fresh = FALSE]]
    /\ IF tests_list[f] = <<>>
       THEN /\ pc' = [pc EXCEPT ![f] = "done"]
            /\ ret' = [how |-> "return", exit_code |-> 0, crashed_tests |-> <<>>]
            /\ UNCHANGED <<crashed_tests, tests_to_skip, max_retries, retry_count>>
       ELSE /\ pc' = [pc EXCEPT ![f] = "loop"]
            /\ crashed_tests' = [crashed_tests EXCEPT ![f] = <<>>]
            /\ tests_to_skip' = [tests_to_skip EXCEPT ![f] = <<>>]
            /\ max_retries' = [max_retries EXCEPT ![f] = Len(tests_list[f])]
            /\ retry_count' = [retry_count EXCEPT ![f] = 0]
            /\ UNCHANGED ret
    /\ UNCHANGED <<inputVars, cleanups, summary, poolVars, main_pc, exit_code, target_gpu, hip_devices, cmd,
                   return_code, report, abort_idx, raising, invocations, run_count,
                   last_report, file_idx, failed_tests, passed_tests, all_crashed_tests,
                   started>>

\* run_multi_gpu_test, "while retry_count <= max_retries": clear the crash
\* file, build the command and start pytest
MultiStartPytest(f) ==
    /\ program = "multi"
    /\ pc[f] = "loop"
    /\ IF retry_count[f] <= max_retries[f]
       THEN /\ \E removable \in BOOLEAN :
                 sentinel' = [sentinel EXCEPT ![f] = ClearCrashFile(@, removable)]
            /\ sent_hist' = [sent_hist EXCEPT ![f] =
                                [@ EXCEPT !.cleared = TRUE,
                                          !.clean = (sentinel'[f] = SentAbsent)]]
            /\ cmd' = [cmd EXCEPT ![f] = BuildPytestCommand(tests_list[f], continue_on_fail,
                                                            tests_to_skip[f])]
            /\ invocations' = [invocations EXCEPT ![f] = @ + 1]
            /\ pc' = [pc EXCEPT ![f] = "pytest"]
            /\ UNCHANGED last_report
       ELSE /\ pc' = [pc EXCEPT ![f] = "abort"]
            /\ last_report' = [last_report EXCEPT ![f] = report[f]]
            /\ sent_hist' = [sent_hist EXCEPT ![f] = NoHist]
            /\ UNCHANGED <<cmd, invocations, sentinel>>
    /\ UNCHANGED <<inputVars, cleanups, summary, multiVars, poolVars, main_pc, exit_code, target_gpu,
                   hip_devices, crashed_tests, tests_to_skip, max_retries, retry_count,
                   return_code, report, abort_idx, raising, run_count>>

\* Faulty variant: the loop has no "already processed this crash" check
MultiCheckCrashNoSafety(f) ==
    /\ program = "multi"
    /\ pc[f] = "check"
    /\ \E rm1 \in BOOLEAN, rm2 \in BOOLEAN :
         LET res == CheckForCrash(sentinel[f], rm1)
             crash_info == res.info
         IN IF crash_info = NoCrash
            THEN /\ sentinel' = [sentinel EXCEPT ![f] = res.file]
                 /\ pc' = [pc EXCEPT ![f] = "cleanup_break"]
                 /\ sent_hist' = [sent_hist EXCEPT ![f] = NoHist]
                 /\ UNCHANGED <<crashed_tests, tests_to_skip, retry_count>>
            ELSE /\ crashed_tests' = [crashed_tests EXCEPT ![f] = Append(@, crash_info)]
                 /\ tests_to_skip' = [tests_to_skip EXCEPT ![f] = Append(@, crash_info.nodeid)]
                 /\ sentinel' = [sentinel EXCEPT ![f] = ClearCrashFile(res.file, rm2)]
                 /\ sent_hist' = [sent_hist EXCEPT ![f] =
                                     IF retry_count[f] + 1 > max_retries[f] THEN NoHist
                                     ELSE [cleared |-> TRUE, clean |-> FALSE,
                                           fresh |-> FALSE]]
                 /\ retry_count' = [retry_count EXCEPT ![f] = @ + 1]
                 /\ pc' = [pc EXCEPT ![f] = IF retry_count[f] + 1 > max_retries[f]
                                            THEN "cleanup_break" ELSE "cleanup_loop"]
    /\ UNCHANGED <<inputVars, cleanups, summary, multiVars, poolVars, main_pc, exit_code, target_gpu,
                   hip_devices, max_retries, cmd, return_code, report, abort_idx, raising,
                   invocations, run_count, last_report>>

\* run_multi_gpu_test after subprocess.run returned: check_for_crash and the
\* bookkeeping of the loop body; the finally block comes next in any case
MultiCheckCrash(f) ==
    /\ program = "multi"
    /\ pc[f] = "check"
    /\ \E rm1 \in BOOLEAN, rm2 \in BOOLEAN :
         LET res == CheckForCrash(sentinel[f], rm1)
             crash_info == res.info
         IN IF crash_info = NoCrash \/ crash_info.nodeid \in Range(tests_to_skip[f])
            THEN /\ sentinel' = [sentinel EXCEPT ![f] = res.file]
                 /\ pc' = [pc EXCEPT ![f] = "cleanup_break"]
                 /\ sent_hist' = [sent_hist EXCEPT ![f] = NoHist]
                 /\ UNCHANGED <<crashed_tests, tests_to_skip, retry_count>>
            ELSE /\ crashed_tests' = [crashed_tests EXCEPT ![f] = Append(@, crash_info)]
                 /\ tests_to_skip' = [tests_to_skip EXCEPT ![f] = Append(@, crash_info.nodeid)]
                 /\ sentinel' = [sentinel EXCEPT ![f] = ClearCrashFile(res.file, rm2)]
                 /\ sent_hist' = [sent_hist EXCEPT ![f] =
                                     IF retry_count[f] + 1 > max_retries[f] THEN NoHist
                                     ELSE [cleared |-> TRUE, clean |-> FALSE,
                                           fresh |-> FALSE]]
                 /\ retry_count' = [retry_count EXCEPT ![f] = @ + 1]
                 /\ pc' = [pc EXCEPT ![f] = IF retry_count[f] + 1 > max_retries[f]
                                            THEN "cleanup_break" ELSE "cleanup_loop"]
    /\ UNCHANGED <<inputVars, cleanups, summary, multiVars, poolVars, main_pc, exit_code, target_gpu,
                   hip_devices, max_retries, cmd, return_code, report, abort_idx, raising,
                   invocations, run_count, last_report>>

\* run_multi_gpu_test, "finally: cleanup_system()", then the loop goes on or
\* the break takes effect
CleanupSystem(f) ==
    /\ program = "multi"
    /\ pc[f] \in {"cleanup_loop", "cleanup_break"}
    /\ cleanups' = [cleanups EXCEPT ![f] = @ + 1]
    /\ IF pc[f] = "cleanup_loop"
       THEN /\ pc' = [pc EXCEPT ![f] = "loop"]
            /\ UNCHANGED last_report
       ELSE /\ pc' = [pc EXCEPT ![f] = "abort"]
            /\ last_report' = [last_report EXCEPT ![f] = report[f]]
    /\ UNCHANGED <<inputVars, summary, sent_hist, multiVars, poolVars, main_pc, exit_code, target_gpu,
                   hip_devices, crashed_tests, tests_to_skip, max_retries, retry_count,
                   cmd, return_code, sentinel, report, abort_idx, raising, invocations,
                   run_count>>

\* run_multi_gpu_test after the for loop: "has_failures = len(crashed_tests) > 0",
\* "return exit_code, crashed_tests"
MultiReturn(f) ==
    /\ program = "multi"
    /\ pc[f] = "abort"
    /\ abort_idx[f] = Len(crashed_tests[f])
    /\ ret' = [how |-> "return",
               exit_code |-> IF Len(crashed_tests[f]) > 0 THEN 1 ELSE 0,
               crashed_tests |-> crashed_tests[f]]
    /\ pc' = [pc EXCEPT ![f] = "done"]
    /\ DropLocals(f)
    /\ UNCHANGED <<inputVars, summary, poolVars, main_pc, exit_code, sentinel, report, run_count,
                   file_idx, failed_tests, passed_tests, all_crashed_tests, started>>

\* main, the body of the for loop after the call: the crashed tests are
\* collected, the file is passed or failed, fail-fast breaks; the handler
\* "except (subprocess.SubprocessError, OSError)" records the file and goes on
AfterFile ==
    /\ program = "multi"
    /\ main_pc = "running"
    /\ ret.how # "none"
    /\ LET test_file == started[Len(started)]
       IN IF ret.how = "raise"
          THEN /\ failed_tests' = Append(failed_tests, <<test_file, -1>>)
               /\ main_pc' = "loop"
               /\ UNCHANGED <<passed_tests, all_crashed_tests>>
          ELSE /\ all_crashed_tests' = all_crashed_tests \o ret.crashed_tests
               /\ IF ret.exit_code = 0
                  THEN /\ passed_tests' = Append(passed_tests, test_file)
                       /\ main_pc' = "loop"
                       /\ UNCHANGED failed_tests
                  ELSE /\ failed_tests' = Append(failed_tests, <<test_file, ret.exit_code>>)
                       /\ main_pc' = IF ~continue_on_fail THEN "report" ELSE "loop"
                       /\ UNCHANGED passed_tests
    /\ ret' = NoRet
    /\ UNCHANGED <<inputVars, cleanups, summary, sent_hist, poolVars, localVars, exit_code, pc, sentinel, report,
                   run_count, file_idx, started>>

\* main: the for loop is exhausted
LoopEnd ==
    /\ program = "multi"
    /\ main_pc = "loop"
    /\ file_idx = Len(SortedList(tests_to_run))
    /\ main_pc' = "report"
    /\ UNCHANGED <<inputVars, cleanups, summary, sent_hist, multiVars, poolVars, localVars, exit_code, pc, sentinel,
                   report, run_count>>

\* main: "if args.continue_on_fail: sys.exit(0)",
\* "sys.exit(1 if (failed_tests or all_crashed_tests) else 0)"
MultiExit ==
    /\ program = "multi"
    /\ main_pc = "exit"
    /\ exit_code = NoKey
    /\ exit_code' = IF continue_on_fail THEN 0
                    ELSE IF failed_tests # <<>> \/ all_crashed_tests # <<>> THEN 1 ELSE 0
    /\ UNCHANGED <<inputVars, cleanups, summary, sent_hist, multiVars, poolVars, localVars, main_pc, pc, sentinel,
                   report, run_count>>

Next ==
    \/ \E m \in Modules : Submit(m)
    \/ \E m \in Modules : StartRun(m)
    \/ \E m \in Modules : Acquire(m)
    \/ \E m \in Modules : Setup(m)
    \/ \E m \in Modules : StartPytest(m)
    \/ \E m \in Modules : PytestCompletes(m)
    \/ \E m \in Modules : PytestCrashes(m)
    \/ \E m \in Modules : PytestKilled(m)
    \/ \E m \in Modules : PytestTimeout(m)
    \/ \E m \in Modules : PytestRaises(m)
    \/ \E m \in Modules : CheckCrash(m)
    \/ \E m \in Modules : AbortNext(m)
    \/ \E m \in Modules : Summary(m)
    \/ \E m \in Modules : Release(m)
    \/ Shutdown
    \/ GenerateFinalReport
    \/ Exit
    \/ \E f \in Modules : StartFile(f)
    \/ \E f \in Modules : CollectRaises(f)
    \/ \E f \in Modules : CollectFails(f)
    \/ \E f \in Modules : Collect(f)
    \/ \E f \in Modules : MultiStartPytest(f)
    \/ \E f \in Modules : MultiCheckCrash(f)
    \/ \E f \in Modules : CleanupSystem(f)
    \/ \E f \in Modules : MultiReturn(f)
    \/ AfterFile
    \/ LoopEnd
    \/ MultiExit

Spec == Init /\ [][Next]_vars

\* The steps of the recovery loop of m.  A thread that can take a step takes
\* it, and a pytest subprocess ends (at the latest with the flat timeout).
LoopStep(m) ==
    \/ StartPytest(m) \/ MultiStartPytest(m)
    \/ PytestCompletes(m) \/ PytestCrashes(m) \/ PytestKilled(m)
    \/ PytestTimeout(m) \/ PytestRaises(m)
    \/ CheckCrash(m) \/ MultiCheckCrash(m) \/ CleanupSystem(m)

FairSpec == Spec /\ \A m \in Modules : WF_vars(LoopStep(m))

\* ============================================================ CI uploaders
\* upload_pytest_to_db.py and upload_test_to_db.py share upload_pytest_results
\* (they differ in how the reports are read and in the names of the tables);
\* upload_to_llama_db.py has upload_llama_results.  The MySQL server is the
\* environment: every statement either succeeds or raises a MySQLError, and
\* what a connection has not committed when it is closed is discarded
\* (autocommit is off).  conn.rollback(), cur.close() and conn.close() are
\* taken to complete.
Min(a, b) == IF a <= b THEN a ELSE b

PytestUploaders == {"upload_pytest", "upload_test"}

\* The tests of the report: at most MaxRows records over MaxTests tests.
UploadTests == UNION {[1..n -> 1..MaxTests] : n \in 1..MaxRows}

\* The script has read its input (a report with no test is "raise SystemExit(2)",
\* a summary with no row is a return, both before the database is touched).
UploadInit ==
    /\ OrchIdle
    /\ ParseIdle
    /\ script \in PytestUploaders \cup {"upload_llama"}
    /\ up_pc = "connect"
    /\ up_tests \in UploadTests
    /\ db_tests0 \in IF script = "upload_llama" THEN {{}} ELSE SUBSET (1..MaxTests)
    /\ db_tests = db_tests0
    /\ db_runs = 0
    /\ db_results = {}
    /\ txn_runs = 0
    /\ txn_tests = {}
    /\ txn_results = {}
    /\ batch_i = 0
    /\ up_error = "none"
    /\ rolled_back = FALSE
    /\ up_exit = NoKey
    /\ commits = 0
    /\ conn = "none"
    /\ cur = "none"

\* upload_pytest_results: "conn = connect()", "cur = conn.cursor()", before the
\* try block: an error in either call is an uncaught exception (exit status
\* 1) that no "finally" follows
Connect ==
    /\ script \in PytestUploaders
    /\ up_pc = "connect"
    /\ \E fails \in {"none", "connect", "cursor"} :
         /\ conn' = IF fails = "connect" THEN "none" ELSE "open"
         /\ cur' = IF fails = "none" THEN "open" ELSE "none"
         /\ IF fails = "none" THEN up_pc' = "insert_run" /\ UNCHANGED up_exit
            ELSE up_pc' = "exited" /\ up_exit' = 1
    /\ UNCHANGED <<orchVars, parseVars, script, commits, up_tests, db_tests0, db_runs, db_tests, db_results,
                   txn_runs, txn_tests, txn_results, batch_i, up_error, rolled_back>>

\* insert_run: one INSERT into the runs table
InsertRun ==
    /\ script \in PytestUploaders
    /\ up_pc = "insert_run"
    /\ \E ok \in BOOLEAN :
         IF ok THEN /\ txn_runs' = txn_runs + 1
                    /\ up_pc' = "sync_tests"
                    /\ UNCHANGED up_error
         ELSE /\ up_error' = "mysql"
              /\ up_pc' = "handler"
              /\ UNCHANGED txn_runs
    /\ UNCHANGED <<orchVars, parseVars, script, commits, conn, cur, up_tests, db_tests0, db_runs, db_tests, db_results,
                   txn_tests, txn_results, batch_i, rolled_back, up_exit>>

\* sync_tests_and_get_ids: CREATE TEMPORARY TABLE (no implicit commit), fill
\* it, INSERT the tests the tests table lacks, SELECT the ids; any of the
\* four statements may fail
SyncTestsAndGetIds ==
    /\ script \in PytestUploaders
    /\ up_pc = "sync_tests"
    /\ \E fails \in {"none", "create", "fill", "insert", "select"} :
         LET uniq == Range(up_tests)
             missing == uniq \ (db_tests \cup txn_tests)
         IN /\ txn_tests' = IF fails \in {"none", "select"}
                            THEN txn_tests \cup missing ELSE txn_tests
            /\ IF fails = "none"
               THEN up_pc' = "rows" /\ UNCHANGED up_error
               ELSE up_pc' = "handler" /\ up_error' = "mysql"
    /\ UNCHANGED <<orchVars, parseVars, script, commits, conn, cur, up_tests, db_tests0, db_runs, db_tests, db_results,
                   txn_runs, txn_results, batch_i, rolled_back, up_exit>>

\* upload_pytest_results, "for t in tests": the result rows are built; a key
\* the SELECT did not give back is a KeyError (not a MySQLError)
BuildRows ==
    /\ script \in PytestUploaders
    /\ up_pc = "rows"
    /\ \E ok \in BOOLEAN :
         IF ok THEN up_pc' = "results" /\ UNCHANGED up_error
         ELSE up_pc' = "handler" /\ up_error' = "other"
    /\ batch_i' = 0
    /\ UNCHANGED <<orchVars, parseVars, script, commits, conn, cur, up_tests, db_tests0, db_runs, db_tests, db_results,
                   txn_runs, txn_tests, txn_results, rolled_back, up_exit>>

\* batch_insert_results: one executemany for the next BATCH_SIZE rows (one row
\* per (run_id, test_id): ON DUPLICATE KEY UPDATE); a failing executemany may
\* have written some rows of its batch
BatchInsertResults ==
    /\ script \in PytestUploaders
    /\ up_pc = "results"
    /\ IF batch_i >= Len(up_tests)
       THEN /\ up_pc' = "commit"
            /\ UNCHANGED <<txn_results, batch_i, up_error>>
       ELSE LET hi == Min(batch_i + BATCH_SIZE, Len(up_tests))
            IN \E ok \in BOOLEAN :
                 IF ok
                 THEN /\ txn_results' = txn_results \cup {up_tests[j] : j \in (batch_i + 1)..hi}
                      /\ batch_i' = hi
                      /\ UNCHANGED <<up_pc, up_error>>
                 ELSE /\ \E k \in batch_i..(hi - 1) :
                           txn_results' =
                             txn_results \cup {up_tests[j] : j \in (batch_i + 1)..k}
                      /\ up_pc' = "handler"
                      /\ up_error' = "mysql"
                      /\ UNCHANGED batch_i
    /\ UNCHANGED <<orchVars, parseVars, script, commits, conn, cur, up_tests, db_tests0, db_runs, db_tests, db_results,
                   txn_runs, txn_tests, rolled_back, up_exit>>

\* upload_pytest_results: conn.commit()
Commit ==
    /\ script \in PytestUploaders
    /\ up_pc = "commit"
    /\ commits' = commits + 1
    /\ \E ok \in BOOLEAN :
         IF ok
         THEN /\ db_runs' = db_runs + txn_runs
              /\ db_tests' = db_tests \cup txn_tests
              /\ db_results' = db_results \cup txn_results
              /\ txn_runs' = 0
              /\ txn_tests' = {}
              /\ txn_results' = {}
              /\ up_pc' = "finally"
              /\ UNCHANGED up_error
         ELSE /\ up_pc' = "handler"
              /\ up_error' = "mysql"
              /\ UNCHANGED <<db_runs, db_tests, db_results, txn_runs, txn_tests,
                             txn_results>>
    /\ UNCHANGED <<orchVars, parseVars, script, conn, cur, up_tests, db_tests0, batch_i,
                   rolled_back, up_exit>>

\* Faulty variant: the handlers do not roll back
HandlerNoRollback ==
    /\ script \in PytestUploaders
    /\ up_pc = "handler"
    /\ up_pc' = "finally"
    /\ UNCHANGED <<orchVars, parseVars, script, commits, conn, cur, up_tests, db_tests0, db_runs, db_tests, db_results,
                   txn_runs, txn_tests, txn_results, batch_i, up_error, rolled_back,
                   up_exit>>

\* upload_pytest_results, "except MySQLError" and "except Exception": both
\* call conn.rollback(); the first raises SystemExit(10), the second re-raises
Handler ==
    /\ script \in PytestUploaders
    /\ up_pc = "handler"
    /\ txn_runs' = 0
    /\ txn_tests' = {}
    /\ txn_results' = {}
    /\ rolled_back' = TRUE
    /\ up_pc' = "finally"
    /\ UNCHANGED <<orchVars, parseVars, script, commits, conn, cur, up_tests, db_tests0, db_runs, db_tests, db_results,
                   batch_i, up_error, up_exit>>

\* upload_pytest_results, "finally: cur.close(); conn.close()", then the
\* process ends: with 0, with the status of SystemExit(10), or with 1 for the
\* exception that was re-raised
Finally ==
    /\ script \in PytestUploaders
    /\ up_pc = "finally"
    /\ txn_runs' = 0
    /\ txn_tests' = {}
    /\ txn_results' = {}
    /\ cur' = "closed"
    /\ conn' = "closed"
    /\ up_exit' = IF up_error = "mysql" THEN DbErrorCode
                  ELSE IF up_error = "other" THEN 1 ELSE 0
    /\ up_pc' = "exited"
    /\ UNCHANGED <<orchVars, parseVars, script, commits, up_tests, db_tests0, db_runs, db_tests, db_results,
                   batch_i, up_error, rolled_back>>

\* upload_llama_results: "cnx = connect_to_db()", "cursor = cnx.cursor()",
\* inside the try block
LlamaConnect ==
    /\ script = "upload_llama"
    /\ up_pc = "connect"
    /\ \E fails \in {"none", "connect", "cursor"} :
         /\ conn' = IF fails = "connect" THEN "none" ELSE "open"
         /\ cur' = IF fails = "none" THEN "open" ELSE "none"
         /\ IF fails = "none" THEN up_pc' = "insert_run" /\ UNCHANGED up_error
            ELSE up_pc' = "handler" /\ up_error' = "connect"
    /\ UNCHANGED <<orchVars, parseVars, script, commits, up_tests, db_tests0, db_runs, db_tests, db_results,
                   txn_runs, txn_tests, txn_results, batch_i, rolled_back, up_exit>>

\* upload_llama_results: INSERT INTO perf_runs
LlamaInsertRun ==
    /\ script = "upload_llama"
    /\ up_pc = "insert_run"
    /\ \E ok \in BOOLEAN :
         IF ok THEN /\ txn_runs' = txn_runs + 1
                    /\ up_pc' = "results"
                    /\ UNCHANGED up_error
         ELSE /\ up_error' = "mysql"
              /\ up_pc' = "handler"
              /\ UNCHANGED txn_runs
    /\ UNCHANGED <<orchVars, parseVars, script, commits, conn, cur, up_tests, db_tests0, db_runs, db_tests, db_results,
                   txn_tests, txn_results, batch_i, rolled_back, up_exit>>

\* upload_llama_results, "for row in rows": one INSERT INTO perf_metrics_step
LlamaInsertStep ==
    /\ script = "upload_llama"
    /\ up_pc = "results"
    /\ IF batch_i >= Len(up_tests)
       THEN /\ up_pc' = "commit"
            /\ UNCHANGED <<txn_results, batch_i, up_error>>
       ELSE \E ok \in BOOLEAN :
              IF ok
              THEN /\ txn_results' = txn_results \cup {batch_i + 1}
                   /\ batch_i' = batch_i + 1
                   /\ UNCHANGED <<up_pc, up_error>>
              ELSE /\ up_pc' = "handler"
                   /\ up_error' = "mysql"
                   /\ UNCHANGED <<txn_results, batch_i>>
    /\ UNCHANGED <<orchVars, parseVars, script, commits, conn, cur, up_tests, db_tests0, db_runs, db_tests, db_results,
                   txn_runs, txn_tests, rolled_back, up_exit>>

\* upload_llama_results: cnx.commit()
LlamaCommit ==
    /\ script = "upload_llama"
    /\ up_pc = "commit"
    /\ commits' = commits + 1
    /\ \E ok \in BOOLEAN :
         IF ok
         THEN /\ db_runs' = db_runs + txn_runs
              /\ db_results' = db_results \cup txn_results
              /\ txn_runs' = 0
              /\ txn_results' = {}
              /\ up_pc' = "finally"
              /\ UNCHANGED up_error
         ELSE /\ up_pc' = "handler"
              /\ up_error' = "mysql"
              /\ UNCHANGED <<db_runs, db_results, txn_runs, txn_results>>
    /\ UNCHANGED <<orchVars, parseVars, script, conn, cur, up_tests, db_tests0, db_tests,
                   txn_tests, batch_i, rolled_back, up_exit>>

\* upload_llama_results, "except mysql.connector.Error as err": the error is
\* printed, nothing else
LlamaHandler ==
    /\ script = "upload_llama"
    /\ up_pc = "handler"
    /\ up_pc' = "finally"
    /\ UNCHANGED <<orchVars, parseVars, script, commits, conn, cur, up_tests, db_tests0, db_runs, db_tests, db_results,
                   txn_runs, txn_tests, txn_results, batch_i, up_error, rolled_back,
                   up_exit>>

\* upload_llama_results, "finally": "if cursor: cursor.close()", "if cnx:
\* cnx.close()" (what was not committed is discarded by the server), the
\* function returns and the script ends with status 0
LlamaFinally ==
    /\ script = "upload_llama"
    /\ up_pc = "finally"
    /\ txn_runs' = 0
    /\ txn_tests' = {}
    /\ txn_results' = {}
    /\ cur' = IF cur = "none" THEN "none" ELSE "closed"
    /\ conn' = IF conn = "none" THEN "none" ELSE "closed"
    /\ up_exit' = 0
    /\ up_pc' = "exited"
    /\ UNCHANGED <<orchVars, parseVars, script, commits, up_tests, db_tests0, db_runs, db_tests, db_results,
                   batch_i, up_error, rolled_back>>

UploadNext ==
    \/ Connect
    \/ InsertRun
    \/ SyncTestsAndGetIds
    \/ BuildRows
    \/ BatchInsertResults
    \/ Commit
    \/ Handler
    \/ Finally
    \/ LlamaConnect
    \/ LlamaInsertRun
    \/ LlamaInsertStep
    \/ LlamaCommit
    \/ LlamaHandler
    \/ LlamaFinally

UploadSpec == UploadInit /\ [][UploadNext]_vars

\* ================================================== log-to-trace converters
\* A log line is what the regular expressions of the parsers make of it: the
\* pattern it matches (kind) and the fields the pattern extracts.  "other" is
\* a line no pattern matches, "blank" an empty line.
Unmatched == {[NoLine EXCEPT !.kind = k] : k \in {"other", "blank"}}

\* gdb-sym.py: r_entry "depth, addr, tid, ts_start" and r_exit
\* ">depth, caller, callee, tid, ts_end, elapsed"
GdbSymLines ==
    {[NoLine EXCEPT !.kind = "entry", !.depth = d, !.addr = a, !.tid = t, !.ts = ts] :
        d \in 0..1, a \in 1..2, t \in 0..2, ts \in 0..MaxTs}
    \cup {[NoLine EXCEPT !.kind = "exit", !.depth = d, !.addr = 1, !.callee = a, !.tid = t,
                         !.ts = ts, !.elapsed = e] :
        d \in 0..1, a \in 1..2, t \in 0..2, ts \in 0..MaxTs, e \in 0..MaxTs}
    \cup Unmatched

\* gdb-sym2.py: r_entry_common "PROBE tid, ts_start ..." and r_exit_common
\* "probe tid, ts_end ...".  GS ncclGroupStart (nothing follows the common
\* part), AR ncclAllReduce (arguments follow), HS hipStreamSynchronize (no
\* exit), L the kernel launch, XX an id PROBE_ID_2_NAME does not have.
\* rest_ok: the rest of the line is what the probe's pattern and checks ask for.
ProbeIds == {"GS", "AR", "HS", "L", "XX"}
GdbSym2Lines ==
    {[NoLine EXCEPT !.kind = k, !.probe = p, !.tid = t, !.ts = ts, !.rest_ok = r,
                    !.tag = IF p = "L" /\ k = "entry" THEN g ELSE 0] :
        k \in {"entry", "exit"}, p \in ProbeIds, t \in 0..1, ts \in 0..MaxTs,
        r \in BOOLEAN, g \in Tags}
    \cup Unmatched

\* unique_probes.py: r_entry "uprobe:...: name" and r_exit "uretprobe:...: name"
UniqueProbesLines ==
    {[NoLine EXCEPT !.kind = k, !.probe = p] : k \in {"entry", "exit"}, p \in {"GS", "AR"}}
    \cup Unmatched

LinesOf(t) ==
    IF t = "gdb_sym" THEN GdbSymLines
    ELSE IF t = "gdb_sym2" THEN GdbSym2Lines ELSE UniqueProbesLines

\* What one iteration of the parsing loop gives: the exception it raised
\* ("none": it went through) and the parser's dictionaries.
Raised(e, c, k, p) == [exc |-> e, calls |-> c, kernels |-> k, probes |-> p]

\* gdb-sym.py, parse_log, a line r_entry matches (the checks in the order of
\* the code; the checks of the address cannot fail, it starts with "0x")
ParseLogEntry(c, l) ==
    LET known == l.tid \in Tids /\ c[l.tid] # NoCall
        prev == c[l.tid]
        fail == Raised("AssertionError", c, kernels, probes)
    IN IF ~(l.tid > 0) \/ ~(l.ts > 0) THEN fail
       ELSE IF known /\ ~(prev.ts_start < l.ts) THEN fail
       ELSE IF l.depth <= 0
            THEN IF ~(~known \/ (0 < prev.ts_end /\ prev.caller # 0)) THEN fail
                 ELSE Raised("none",
                             [c EXCEPT ![l.tid] = [NoCall EXCEPT !.addr = l.addr,
                                                                 !.ts_start = l.ts]],
                             kernels, probes)
            ELSE IF ~known \/ ~(prev.addr # l.addr) THEN fail
                 ELSE Raised("none", c, kernels, probes)

\* Faulty variant: an exit line is not checked against an open call
ParseLogExitNoOpenCheck(c, l) ==
    LET known == l.tid \in Tids /\ c[l.tid] # NoCall
        prev == c[l.tid]
        fail == Raised("AssertionError", c, kernels, probes)
    IN IF ~(l.tid > 0) \/ ~(l.ts > 0) \/ ~(l.elapsed > 0) THEN fail
       ELSE IF ~known THEN Raised("KeyError", c, kernels, probes)
       ELSE IF ~(prev.ts_start < l.ts) THEN fail
       ELSE IF ~(l.elapsed # l.ts) THEN fail
       ELSE IF ~(prev.ts_start + l.elapsed = l.ts) THEN fail
       ELSE IF ~(l.callee = prev.addr) THEN fail
       ELSE IF l.depth <= 0
            THEN Raised("none",
                        [c EXCEPT ![l.tid] = [prev EXCEPT !.ts_end = l.ts, !.caller = l.addr]],
                        kernels, probes)
            ELSE Raised("none", c, kernels, probes)

\* gdb-sym.py, parse_log, a line r_exit matches; calls[tid] of a thread that
\* has no call is a KeyError
ParseLogExit(c, l) ==
    LET known == l.tid \in Tids /\ c[l.tid] # NoCall
        prev == c[l.tid]
        fail == Raised("AssertionError", c, kernels, probes)
    IN IF ~(l.tid > 0) \/ ~(l.ts > 0) \/ ~(l.elapsed > 0) THEN fail
       ELSE IF ~known THEN Raised("KeyError", c, kernels, probes)
       ELSE IF ~(prev.ts_end = 0 /\ prev.caller = 0) THEN fail
       ELSE IF ~(prev.ts_start < l.ts) THEN fail
       ELSE IF ~(l.elapsed # l.ts) THEN fail
       ELSE IF ~(prev.ts_start + l.elapsed = l.ts) THEN fail
       ELSE IF ~(l.callee = prev.addr) THEN fail
       ELSE IF l.depth <= 0
            THEN Raised("none",
                        [c EXCEPT ![l.tid] = [prev EXCEPT !.ts_end = l.ts, !.caller = l.addr]],
                        kernels, probes)
            ELSE Raised("none", c, kernels, probes)

\* Faulty variant: a line no pattern matches is skipped
ParseLogLineSkip(c, l) ==
    IF l.kind = "entry" THEN ParseLogEntry(c, l)
    ELSE IF l.kind = "exit" THEN ParseLogExit(c, l)
    ELSE Raised("none", c, kernels, probes)

\* gdb-sym.py, parse_log, the body of "for idx, line in enumerate(file)";
\* "elif line" is true of every line, an empty one too (it holds its newline)
ParseLogLine(c, l) ==
    IF l.kind = "entry" THEN ParseLogEntry(c, l)
    ELSE IF l.kind = "exit" THEN ParseLogExit(c, l)
    ELSE Raised("RuntimeError", c, kernels, probes)

\* gdb-sym2.py: isNoExit, and whether the probe is the kernel launch
IsNoExit(probe) == probe = "HS"
IsKernelLaunch(probe) == probe = "L"

\* gdb-sym2.py, parseLog, a line r_entry_common matches.  A call is appended
\* to calls (or, for a probe with no exit, to no_exit_calls, which parseLog
\* does not read while it parses) before the rest of the line is checked.
ParseLog2Entry(c, k, l) ==
    LET known == l.tid \in Tids /\ c[l.tid] # NoCall
        prev == c[l.tid]
        fail == Raised("AssertionError", c, k, probes)
    IN IF l.probe = "XX" THEN Raised("KeyError", c, k, probes)
       ELSE IF ~(l.tid > 0) \/ ~(l.ts > 0) THEN fail
       ELSE IF IsKernelLaunch(l.probe)
            THEN IF ~l.rest_ok \/ k[l.tag] # NoCall THEN fail
                 ELSE Raised("none", c,
                             [k EXCEPT ![l.tag] = [NoCall EXCEPT !.addr = l.tid, !.probe = l.probe,
                                                                 !.ts_start = l.ts]],
                             probes)
            ELSE IF known /\ ~(prev.ts_start < l.ts) THEN fail
            ELSE IF ~(~known \/ (0 < prev.ts_end /\ prev.caller # 0)) THEN fail
            ELSE IF ~l.rest_ok THEN fail
            ELSE IF IsNoExit(l.probe) THEN Raised("none", c, k, probes)
            ELSE Raised("none",
                        [c EXCEPT ![l.tid] = [NoCall EXCEPT !.probe = l.probe,
                                                            !.ts_start = l.ts]],
                        k, probes)

\* gdb-sym2.py, parseLog, a line r_exit_common matches.  For the kernel
\* launch the columns are read as "ts_end, func_tag".
ParseLog2Exit(c, k, l) ==
    LET known == l.tid \in Tids /\ c[l.tid] # NoCall
        prev == c[l.tid]
        fail == Raised("AssertionError", c, k, probes)
    IN IF l.probe = "XX" THEN Raised("KeyError", c, k, probes)
       ELSE IF ~(l.tid > 0) \/ ~(l.ts > 0) THEN fail
       ELSE IF IsKernelLaunch(l.probe)
            THEN IF k[l.ts] = NoCall THEN Raised("KeyError", c, k, probes)
                 ELSE IF ~(k[l.ts].ts_start < l.tid) THEN fail
                 ELSE Raised("none", c, [k EXCEPT ![l.ts].ts_end = l.tid], probes)
            ELSE IF ~known THEN Raised("KeyError", c, k, probes)
            ELSE IF ~(l.probe = prev.probe) THEN fail
            ELSE IF ~(prev.ts_end = 0 /\ prev.caller = 0) THEN fail
            ELSE IF ~(prev.ts_start < l.ts) THEN fail
            ELSE IF ~l.rest_ok THEN fail
            ELSE Raised("none",
                        [c EXCEPT ![l.tid] = [prev EXCEPT !.ts_end = l.ts, !.caller = 1]],
                        k, probes)

\* gdb-sym2.py, parseLog, the body of the loop: "if not line.strip(): continue"
ParseLog2Line(c, k, l) ==
    IF l.kind = "blank" THEN Raised("none", c, k, probes)
    ELSE IF l.kind = "entry" THEN ParseLog2Entry(c, k, l)
    ELSE IF l.kind = "exit" THEN ParseLog2Exit(c, k, l)
    ELSE Raised("RuntimeError", c, k, probes)

\* unique_probes.py, process_log, the body of the loop
ProcessLogLine(ps, l) ==
    IF l.kind \in {"entry", "exit"} THEN Raised("none", calls, kernels, ps \cup {l.probe})
    ELSE Raised("RuntimeError", calls, kernels, ps)

ParserTools == {"gdb_sym", "gdb_sym2", "unique_probes"}

\* The script has found and opened its log file.
ParseInit ==
    /\ OrchIdle
    /\ UploadIdle
    /\ tool \in ParserTools
    /\ p_pc = "parse"
    /\ line_no = 0
    /\ line = NoLine
    /\ calls = [t \in Tids |-> NoCall]
    /\ kernels = [g \in Tags |-> NoCall]
    /\ probes = {}
    /\ parse_exc = "none"
    /\ trace_written = FALSE

\* parse_log / parseLog / process_log: the next line of the file is read and
\* parsed; an exception ends the script
ParseLine ==
    /\ tool \in ParserTools
    /\ p_pc = "parse"
    /\ line_no < MaxLines
    /\ \E l \in LinesOf(tool) :
         LET res == IF tool = "gdb_sym" THEN ParseLogLine(calls, l)
                    ELSE IF tool = "gdb_sym2" THEN ParseLog2Line(calls, kernels, l)
                    ELSE ProcessLogLine(probes, l)
         IN /\ line' = l
            /\ line_no' = line_no + 1
            /\ parse_exc' = res.exc
            /\ IF res.exc = "none"
               THEN /\ calls' = res.calls
                    /\ kernels' = res.kernels
                    /\ probes' = res.probes
                    /\ UNCHANGED p_pc
               ELSE /\ p_pc' = "failed"
                    /\ UNCHANGED <<calls, kernels, probes>>
    /\ UNCHANGED <<orchVars, uploadVars, tool, trace_written>>

\* The file has no further line: the parsing loop ends
EndOfLog ==
    /\ tool \in ParserTools
    /\ p_pc = "parse"
    /\ p_pc' = "post"
    /\ UNCHANGED <<orchVars, uploadVars, tool, line_no, line, calls, kernels, probes,
                   parse_exc, trace_written>>

\* process_log after the parse: the symbols are looked up and the reports
\* printed (gdb-sym.py, gdb-sym2.py), which may raise for a log whose calls do
\* not fit together; unique_probes.py prints the probes and is done
PostProcess ==
    /\ tool \in ParserTools
    /\ p_pc = "post"
    /\ IF tool = "unique_probes"
       THEN p_pc' = "done"
       ELSE \E ok \in BOOLEAN : p_pc' = IF ok THEN "write" ELSE "failed_report"
    /\ UNCHANGED <<orchVars, uploadVars, tool, line_no, line, calls, kernels, probes,
                   parse_exc, trace_written>>

\* make_trace: the trace file is written
MakeTrace ==
    /\ tool \in {"gdb_sym", "gdb_sym2"}
    /\ p_pc = "write"
    /\ trace_written' = TRUE
    /\ p_pc' = "done"
    /\ UNCHANGED <<orchVars, uploadVars, tool, line_no, line, calls, kernels, probes,
                   parse_exc>>

ParseNext ==
    \/ ParseLine
    \/ EndOfLog
    \/ PostProcess
    \/ MakeTrace

ParseSpec == ParseInit /\ [][ParseNext]_vars

\* ==================================================================== claims
InLoop == {"loop", "pytest", "check", "cleanup_loop", "cleanup_break"}
Tokens == 0..(parallel - 1)
Holders == {m \in Modules : pc[m] \in Holding}
Listed == DOMAIN tests_list
CrashedIds(m) == [i \in 1..Len(crashed_tests[m]) |-> crashed_tests[m][i].nodeid]

\* C1: no two run_test workers hold the same GPU token at the same time, no two
\* pytest subprocesses that run at the same time have the same
\* HIP_VISIBLE_DEVICES, and every pytest invocation of a module, retries
\* included, is given the one token the module holds.
C1_Inv ==
    program = "single" =>
      /\ \A a \in Holders : \A b \in Holders : a # b => target_gpu[a] # target_gpu[b]
      /\ \A a \in Modules : \A b \in Modules :
           (a # b /\ pc[a] = "pytest" /\ pc[b] = "pytest") => hip_devices[a] # hip_devices[b]
      /\ \A m \in Modules :
           pc[m] \in {"loop", "pytest", "check"} =>
             hip_devices[m] = target_gpu[m] /\ target_gpu[m] \in Tokens
C1_Step ==
    \A m \in Modules :
      (pc[m] \in Holding /\ pc'[m] \in Holding) => target_gpu'[m] = target_gpu[m]
C1_TokensExclusive == []C1_Inv /\ [][C1_Step]_vars
C1_Witness ==
    \E a \in Modules : \E b \in Modules :
      a # b /\ pc[a] = "pytest" /\ pc[b] = "pytest" /\ invocations[a] >= 2

\* C2: the tokens in the pool and the tokens held by running workers are at
\* all times exactly 0..p-1, each once, also after a body that raised; once
\* run_parallel has returned the pool holds all p tokens.
C2_TokensConserved ==
    program = "single" =>
      /\ Len(gpu_tokens) + Cardinality(Holders) = parallel
      /\ Range(gpu_tokens) \cup {target_gpu[m] : m \in Holders} = Tokens
      /\ main_pc \in {"report", "exit"} => Len(gpu_tokens) = parallel
C2_Witness ==
    /\ program = "single"
    /\ main_pc = "report"
    /\ \E m \in Modules : pc[m] = "raised"
    /\ \E m \in Modules : pc[m] = "done"
    /\ Len(gpu_tokens) = 2

\* C3: a pytest invocation is treated as crashed exactly when the sentinel file
\* exists, parses, has status "running" and a start_time at least 0.1 s old;
\* an invocation that ends with a non-zero exit code without such a sentinel
\* ends the loop: no retry, no entry in crashed_tests.
CrashDetectedIn(file) ==
    /\ file.exists
    /\ file.parses
    /\ file.status = "running"
    /\ file.start_ok
    /\ file.age >= MinCrashAgeMs
C3_Step ==
    \A m \in Modules :
      (pc[m] = "check" /\ pc'[m] # "check") =>
        /\ \A rm \in BOOLEAN :
             (CheckForCrash(sentinel[m], rm).info # NoCrash) <=> CrashDetectedIn(sentinel[m])
        /\ (crashed_tests'[m] # crashed_tests[m]) <=>
             (CrashDetectedIn(sentinel[m]) /\ sentinel[m].nodeid \notin Range(tests_to_skip[m])
              /\ ~(sentinel[m].nodeid = NoKey /\ UnknownTest \in Range(tests_to_skip[m])))
        /\ pc'[m] \in {"loop", "cleanup_loop"} => CrashDetectedIn(sentinel[m])
        /\ (return_code[m] # 0 /\ ~CrashDetectedIn(sentinel[m])) =>
             /\ crashed_tests'[m] = crashed_tests[m]
             /\ pc'[m] \in {"abort", "cleanup_break"}
C3_CrashIffSentinel == [][C3_Step]_vars
C3_Witness ==
    \E m \in Modules :
      /\ pc[m] = "abort"
      /\ return_code[m] = 1
      /\ invocations[m] = 1
      /\ crashed_tests[m] = <<>>
      /\ sentinel[m] = SentFinished

\* C4: the invocation that follows the k-th crash is given the whole list of
\* node ids and one --deselect for each of the k crashed tests, in crash
\* order; no test recorded as crashed is selected by it.
C4_CumulativeDeselect ==
    \A m \in Modules :
      pc[m] \in {"pytest", "check"} =>
        /\ cmd[m].tests = tests_list[m]
        /\ cmd[m].deselect = CrashedIds(m)
        /\ Len(crashed_tests[m]) = invocations[m] - 1
        /\ Range(Selected(cmd[m].tests, cmd[m].deselect)) \cap Range(CrashedIds(m)) = {}
        /\ Range(Selected(cmd[m].tests, cmd[m].deselect))
             = Range(tests_list[m]) \ Range(CrashedIds(m))
C4_Witness ==
    \E m \in Modules : pc[m] = "pytest" /\ cmd[m].deselect = <<2, 1>>

\* C5: handle_abort is called only after the last pytest invocation of the
\* module, once for each crashed test; when the module is finished its JSON
\* report holds what the file held when the loop ended followed by exactly k
\* synthetic failed records, one per crashed test, in crash order.
SyntheticCount(r) == Cardinality({i \in 1..Len(r.tests) : r.tests[i].aborted})
C6_Inv ==
    \A m \in Modules :
      /\ m \in Listed => invocations[m] <= Len(tests_list[m]) + 1
      /\ m \notin Listed => invocations[m] = 0
C6_LoopEnds == \A m \in Modules : (pc[m] = "loop") ~> (pc[m] \notin InLoop)
C6_BoundedInvocations == []C6_Inv /\ C6_LoopEnds
C6_Witness ==
    \E m \in Listed :
      Len(tests_list[m]) = 2 /\ invocations[m] = 3 /\ pc[m] = "pytest"

\* C7: when a pytest subprocess of run_single_gpu.py ended with a non-zero exit
\* code, the runner's own exit code is non-zero.
C7_ExitCodePropagated ==
    (program = "single" /\ exit_code # NoKey
       /\ \E m \in Modules : report[m].kind = "json" /\ report[m].exitcode # 0)
      => exit_code # 0

\* C8: run_multi_gpu.py exits with 0 under --continue_on_fail; without it, with
\* 1 when a pytest batch returned a non-zero exit code or a test crashed, and
\* with 0 when no file failed at all.
C8_MultiExitStatus ==
    (program = "multi" /\ exit_code # NoKey) =>
      IF continue_on_fail THEN exit_code = 0
      ELSE /\ ((\E f \in Modules : report[f].kind = "json" /\ report[f].exitcode # 0)
               \/ all_crashed_tests # <<>>) => exit_code = 1
           /\ exit_code \in {0, 1}
           /\ (failed_tests = <<>> /\ all_crashed_tests = <<>>
               /\ \A f \in Modules : report[f].kind = "json" => report[f].exitcode = 0)
                => exit_code = 0

\* C9: every module of tests_dict is submitted once and run once, run_test is
\* never left without running the module, run_parallel returns only when all
\* of them have ended, and generate_final_report starts after that.
C9_Inv ==
    program = "single" =>
      /\ \A m \in Modules : run_count[m] <= 1
      /\ \A m \in Modules : (pc[m] = "queued") <=> (m \in Range(queue))
      /\ \A i \in 1..Len(queue) : \A j \in 1..Len(queue) : queue[i] = queue[j] => i = j
      /\ main_pc # "submit" => \A m \in Modules : (pc[m] # "new") <=> (m \in Listed)
      /\ main_pc \in {"report", "exit"} =>
           \A m \in Listed : pc[m] \in Finished /\ run_count[m] = 1
C9_Step ==
    \A m \in Modules : pc[m] = "acquire" => pc'[m] \in {"acquire", "setup"}
C9_AllModulesRun == []C9_Inv /\ [][C9_Step]_vars
C9_Witness ==
    /\ program = "single"
    /\ main_pc = "shutdown"
    /\ Len(tests_list) = 2
    /\ pc[2] = "done"
    /\ pc[1] = "pytest"

\* C10: main of run_multi_gpu.py starts the test files one at a time in sorted
\* order, and without --continue_on_fail it starts no file after the first
\* one recorded in failed_tests.
C10_SortedFailFast ==
    program = "multi" =>
      /\ started = SubSeq(SortedList(tests_to_run), 1, Len(started))
      /\ Cardinality({f \in Modules : pc[f] \notin {"new", "done", "raised"}}) <= 1
      /\ ~continue_on_fail =>
           \A i \in 1..Len(failed_tests) : failed_tests[i][1] = started[Len(started)]

\* C11: in upload_pytest_to_db.py and upload_test_to_db.py a MySQL error raised
\* between insert_run and commit is followed by a rollback, no run, test or
\* result row of the upload is ever committed, and the process exits with 10.
\* Rows are committed by a commit that succeeded, and by nothing else.
C11_Inv ==
    script \in PytestUploaders =>
      /\ up_error = "mysql" =>
           /\ db_runs = 0 /\ db_tests = db_tests0 /\ db_results = {}
           /\ up_pc \in {"handler", "finally", "exited"}
           /\ up_pc \in {"finally", "exited"} => rolled_back
           /\ up_pc = "exited" => up_exit = DbErrorCode
      /\ up_pc = "exited" =>
           /\ txn_runs = 0 /\ txn_tests = {} /\ txn_results = {}
           /\ up_exit = DbErrorCode => up_error = "mysql"
C11_Step ==
    (script \in PytestUploaders /\ up_error = "mysql") =>
      (up_error' = "mysql" /\ db_runs' = db_runs /\ db_tests' = db_tests
       /\ db_results' = db_results)
C12_LlamaRollbackAndExit ==
    (script = "upload_llama" /\ up_pc = "exited" /\ up_error = "mysql") =>
      (rolled_back /\ up_exit # 0)

\* C13 as the spec has it: a log line that makes the parse fail makes it fail
\* with a RuntimeError and with no other exception.
C13_OnlyRuntimeError == parse_exc \in {"none", "RuntimeError"}

\* C13, amended: a line that matches neither the entry nor the exit pattern
\* (in gdb-sym2.py: and is not blank) ends the parse with a RuntimeError; a
\* line that matches a pattern ends it, if at all, with an AssertionError or a
\* KeyError; a parse that failed leaves no trace file.
Unparsable(t, l) == l.kind = "other" \/ (l.kind = "blank" /\ t # "gdb_sym2")
C13_Inv ==
    /\ p_pc = "failed" <=> parse_exc # "none"
    /\ parse_exc # "none" => ~trace_written
    /\ parse_exc # "none" =>
         IF Unparsable(tool, line) THEN parse_exc = "RuntimeError"
         ELSE parse_exc \in {"AssertionError", "KeyError"}
    /\ (tool # "none" /\ line # NoLine /\ Unparsable(tool, line)) => p_pc = "failed"
C13_Step == p_pc = "failed" => UNCHANGED parseVars
C13_UnparsableRaisesRuntimeError == []C13_Inv /\ [][C13_Step]_vars
C13_Witness ==
    /\ tool = "gdb_sym"
    /\ line_no = 3
    /\ line.kind = "other"
    /\ parse_exc = "RuntimeError"
    /\ calls[1].ts_end > 0

\* C14: whenever a worker of run_single_gpu.py is at gpu_tokens.pop() the pool
\* holds a token: the workers that run are at most p, and the pool holds one
\* token for each of the p that holds none.
C14_PopNeverEmpty ==
    program = "single" =>
      /\ Cardinality({m \in Modules : pc[m] \in Busy}) <= parallel
      /\ Len(gpu_tokens) = parallel - Cardinality(Holders)
      /\ \A m \in Modules : pc[m] = "acquire" => gpu_tokens # <<>>
C14_Witness ==
    /\ program = "single"
    /\ parallel = 1
    /\ Len(tests_list) = 2
    /\ pc[1] = "done"
    /\ pc[2] = "acquire"
    /\ run_count[1] = 1

\* C15: while a module is in its recovery loop (at the loop condition and at
\* every other position of the loop) tests_to_skip holds no node id twice,
\* it lists the node ids of crashed_tests in order, and both lists are
\* retry_count long; a check that finds a crash whose node id is already in
\* tests_to_skip leaves the three unchanged and ends the loop.
ReportedNodeid(file) == IF file.nodeid = NoKey THEN UnknownTest ELSE file.nodeid
C15_Inv ==
    \A m \in Modules :
      pc[m] \in InLoop =>
        /\ \A i, j \in 1..Len(tests_to_skip[m]) :
             tests_to_skip[m][i] = tests_to_skip[m][j] => i = j
        /\ Len(crashed_tests[m]) = retry_count[m]
        /\ Len(tests_to_skip[m]) = retry_count[m]
        /\ \A i \in 1..Len(tests_to_skip[m]) :
             crashed_tests[m][i].nodeid = tests_to_skip[m][i]
C15_Step ==
    \A m \in Modules :
      (/\ pc[m] = "check" /\ pc'[m] # "check"
       /\ CrashDetectedIn(sentinel[m])
       /\ ReportedNodeid(sentinel[m]) \in Range(tests_to_skip[m])) =>
        /\ crashed_tests'[m] = crashed_tests[m]
        /\ tests_to_skip'[m] = tests_to_skip[m]
        /\ retry_count'[m] = retry_count[m]
        /\ pc'[m] \in {"abort", "cleanup_break"}
C15_NoDuplicateCrash == []C15_Inv /\ [][C15_Step]_vars
C15_Witness ==
    \E m \in Modules :
      /\ pc[m] \in {"abort", "cleanup_break"}
      /\ invocations[m] = 2
      /\ retry_count[m] = 1
      /\ retry_count[m] <= max_retries[m]
      /\ CrashDetectedIn(sentinel[m])
      /\ ReportedNodeid(sentinel[m]) \in Range(tests_to_skip[m])

\* C16: clear_crash_file has been called on the last_running file of a module
\* before each of its pytest invocations, with no invocation in between; and
\* when the file was absent as the invocation started (deletion succeeded), a
\* crash recorded after the invocation comes from a sentinel written by that
\* very invocation, not by an earlier one or an earlier run.
C16_Inv ==
    \A m \in Modules :
      pc[m] = "pytest" =>
        /\ sent_hist[m].cleared
        /\ sent_hist[m].clean <=> sentinel[m] = SentAbsent
C16_Step ==
    \A m \in Modules :
      (/\ pc[m] = "check"
       /\ crashed_tests'[m] # crashed_tests[m]
       /\ sent_hist[m].clean) =>
        sent_hist[m].fresh
C16_SentinelCleared == []C16_Inv /\ [][C16_Step]_vars
C16_Witness ==
    \E m \in Modules :
      /\ pc[m] = "check"
      /\ invocations[m] = 2
      /\ Len(crashed_tests[m]) = 1
      /\ CrashDetectedIn(sentinel[m])
      /\ ReportedNodeid(sentinel[m]) \notin Range(tests_to_skip[m])
      /\ sent_hist[m].clean
      /\ sent_hist[m].fresh

\* C17: in the final summary a crashed test is counted under Crashed and not
\* under Failed: Crashed is the number of crashed tests of the run, and Failed
\* is the number of report records with outcome "failed" that are neither the
\* record written for a crashed test nor a record with the node id of one,
\* whatever node id the sentinel reported.
RECURSIVE FailedNotCrashed(_)
FailedNotCrashed(n) ==
    IF n = 0 THEN 0
    ELSE FailedNotCrashed(n - 1)
         + (IF n \in ReportFiles
            THEN Cardinality({i \in 1..Len(report[n].tests) :
                               /\ report[n].tests[i].outcome = "failed"
                               /\ ~report[n].tests[i].aborted
                               /\ report[n].tests[i].nodeid \notin CrashedNodeids})
            ELSE 0)
C17_CrashedNotFailed ==
    summary.printed =>
      /\ summary.crashed = Len(LiveCrashes)
      /\ summary.failed = FailedNotCrashed(NumModules)

\* C18: run_multi_gpu_test runs the tests of a file one at a time: the command
\* of every pytest invocation selects exactly one test, and no test is handed
\* to pytest by two invocations of the same call (after a crash the loop goes
\* on with the next test).
C18_Inv ==
    \A f \in Modules :
      (program = "multi" /\ pc[f] = "pytest") =>
        Len(Selected(cmd[f].tests, cmd[f].deselect)) = 1
C18_Step ==
    \A f \in Modules :
      (program = "multi" /\ pc[f] = "loop" /\ pc'[f] = "pytest" /\ invocations[f] > 0) =>
        Range(Selected(cmd'[f].tests, cmd'[f].deselect))
          \cap Range(Selected(cmd[f].tests, cmd[f].deselect)) = {}
C18_OneTestPerInvocation == []C18_Inv /\ [][C18_Step]_vars

\* C19: no crash record of run_single_gpu.py is lost or duplicated: when a
\* call of run_test ends, every record of its crashed_tests is in
\* ALL_CRASHED_TESTS, and ALL_CRASHED_TESTS only ever changes by one call
\* appending its whole crashed_tests, once, as it leaves the loop.
C19_Step ==
    /\ \A m \in Modules :
         (program = "single" /\ pc[m] = "release" /\ pc'[m] \in Finished) =>
           \A i \in 1..Len(crashed_tests[m]) :
             \E j \in 1..Len(ALL_CRASHED_TESTS) : ALL_CRASHED_TESTS[j] = crashed_tests[m][i]
    /\ ALL_CRASHED_TESTS' # ALL_CRASHED_TESTS =>
         \E m \in Modules :
           /\ pc[m] = "abort" /\ pc'[m] = "release"
           /\ ALL_CRASHED_TESTS' = ALL_CRASHED_TESTS \o crashed_tests[m]
C19_NoCrashRecordLost == [][C19_Step]_vars

\* C20: in run_multi_gpu_test cleanup_system has run to its end once for every
\* pytest invocation that is over (ended normally, timed out, failed to start
\* or ended the loop) by the time the loop condition is evaluated again or
\* the loop has been left; while an invocation or its check is in progress
\* exactly the cleanup of that invocation is outstanding.
C20_CleanupAfterEveryInvocation ==
    \A f \in Modules :
      program = "multi" =>
        /\ pc[f] \in {"loop", "abort"} => cleanups[f] = invocations[f]
        /\ pc[f] \in {"pytest", "check", "cleanup_loop", "cleanup_break"} =>
             cleanups[f] = invocations[f] - 1
C20_Witness ==
    \E f \in Modules :
      /\ program = "multi"
      /\ pc[f] = "abort"
      /\ return_code[f] = TimeoutCode
      /\ invocations[f] = 2
      /\ cleanups[f] = 2

\* C21: in run_multi_gpu_test a pytest batch that runs into the timeout ends
\* the recovery loop: until the call returns no further invocation is started
\* and crashed_tests stays as it was (the test that hung is not added), and
\* when the call returns the report holds one abort record for every crash
\* recorded before the timeout.
AbortRecords(rep) == {i \in 1..Len(rep.tests) : rep.tests[i].aborted}
C21_Step ==
    \A f \in Modules :
      (/\ program = "multi"
       /\ \/ return_code[f] = TimeoutCode
          \/ (pc[f] = "pytest" /\ return_code'[f] = TimeoutCode)) =>
        /\ pc'[f] # "pytest" \/ pc[f] = "pytest"
        /\ pc'[f] \notin {"check", "loop", "cleanup_loop"}
        /\ invocations'[f] = invocations[f] \/ pc'[f] = "done"
        /\ crashed_tests'[f] = crashed_tests[f] \/ pc'[f] = "done"
        /\ pc'[f] = "done" =>
             /\ ret'.crashed_tests = crashed_tests[f]
             /\ Cardinality(AbortRecords(report[f])) = Len(crashed_tests[f])
             /\ \A i \in 1..Len(crashed_tests[f]) :
                  \E j \in AbortRecords(report[f]) :
                    report[f].tests[j].nodeid = AbortNodeid(crashed_tests[f][i].test_name)
C21_TimeoutEndsLoop == [][C21_Step]_vars
C21_Witness ==
    \E f \in Modules :
      /\ program = "multi"
      /\ pc[f] = "abort"
      /\ return_code[f] = TimeoutCode
      /\ invocations[f] = 2
      /\ Len(crashed_tests[f]) = 1
      /\ abort_idx[f] = 1
      /\ Cardinality(AbortRecords(report[f])) = 1

\* C22: append_abort_to_json on an existing report that parses appends exactly
\* one record after the records that were there, adds 1 to failed, total and
\* collected (and to unskipped_total when the key is there), sets exitcode to
\* 1 and leaves the other counters of the report as they were.
C22_Step ==
    \A m \in Modules :
      (pc[m] = "abort" /\ abort_idx'[m] = abort_idx[m] + 1 /\ report[m].kind = "json") =>
        LET old == report[m]
            new == report'[m]
        IN /\ new.kind = "json"
           /\ Len(new.tests) = Len(old.tests) + 1
           /\ SubSeq(new.tests, 1, Len(old.tests)) = old.tests
           /\ new.tests[Len(new.tests)].outcome = "failed"
           /\ new.failed = old.failed + 1
           /\ new.total = old.total + 1
           /\ new.collected = old.collected + 1
           /\ new.unskipped_total =
                IF old.unskipped_total = NoKey THEN NoKey ELSE old.unskipped_total + 1
           /\ new.exitcode = 1
           /\ new.passed = old.passed
           /\ new.collector_failed = old.collector_failed
C22_AppendFrame == [][C22_Step]_vars
C22_Witness ==
    \E m \in Modules :
      /\ pc[m] = "abort"
      /\ abort_idx[m] = 1
      /\ last_report[m].kind = "json"
      /\ last_report[m].passed = 1
      /\ last_report[m].failed = 0
      /\ report[m].failed = 1
      /\ report[m].total = 2
      /\ report[m].passed = 1

\* ---- C23 ----
\* what upload_pytest_results has stored when the process has ended: the whole
\* upload (one run row, every missing test row, one result row per test) or
\* nothing of it
StoredCompletely ==
    /\ db_runs = 1
    /\ db_tests = db_tests0 \cup Range(up_tests)
    /\ db_results = Range(up_tests)

StoredNotAtAll ==
    /\ db_runs = 0
    /\ db_tests = db_tests0
    /\ db_results = {}

\* the transaction part of C23: commit is reached only with every row of the
\* upload inserted, it is issued at most once, an error inside the try block
\* is followed by a rollback, and the upload is stored completely or not at all
C23_Transaction ==
    script \in PytestUploaders =>
      /\ commits <= 1
      /\ up_pc = "commit" =>
           /\ commits = 0
           /\ txn_runs = 1
           /\ Range(up_tests) \subseteq db_tests \cup txn_tests
           /\ txn_results = Range(up_tests)
      /\ (up_pc \in {"finally", "exited"} /\ up_error # "none") =>
           rolled_back /\ db_runs = 0
      /\ up_pc = "exited" => StoredCompletely \/ StoredNotAtAll
      /\ (up_pc = "exited" /\ up_exit = 0) => commits = 1 /\ StoredCompletely

\* a step that issues commit is the only step that changes what is stored
C23_CommitStep ==
    (script \in PytestUploaders /\ <<db_runs, db_tests, db_results>>' # <<db_runs, db_tests, db_results>>)
      => commits' = commits + 1

\* the part of C23 that holds: the transaction part, and cursor and connection
\* are closed on every path that entered the try block
C23_TryBlockPaths ==
    /\ [](C23_Transaction
          /\ ((script \in PytestUploaders /\ up_pc = "exited" /\ cur # "none")
                => (cur = "closed" /\ conn = "closed")))
    /\ [][C23_CommitStep]_vars

\* C23: upload_pytest_results issues commit once and only after the run row,
\* the missing test rows and all result batches are inserted, rolls back on
\* any exception, stores the upload completely or not at all, and on every
\* path the process ends with neither the cursor nor the connection left open
C23_AtomicUploadAllClosed ==
    /\ [](C23_Transaction
          /\ ((script \in PytestUploaders /\ up_pc = "exited")
                => (cur # "open" /\ conn # "open")))
    /\ [][C23_CommitStep]_vars
\* ---- C24 ----
\* gdb-sym.py: the step is an iteration of parse_log's loop that raised nothing
AcceptedLine ==
    /\ tool = "gdb_sym"
    /\ line_no' = line_no + 1
    /\ parse_exc' = "none"

\* the thread's latest recorded call is open: ts_end is 0 and the caller unset
IsOpenCall(call) == call # NoCall /\ call.ts_end = 0 /\ call.caller = 0

\* the checks an accepted exit line has passed against the latest call
ExitMatches(call, l) ==
    /\ IsOpenCall(call)
    /\ l.callee = call.addr
    /\ call.ts_start < l.ts
    /\ call.ts_start + l.elapsed = l.ts

\* an accepted entry line changes a thread's latest call only by recording a
\* new top-level call, and only when the thread has no call or a closed one
C24_EntryStep ==
    (AcceptedLine /\ line'.kind = "entry") =>
      /\ line'.tid \in Tids
      /\ \A t \in Tids \ {line'.tid} : calls'[t] = calls[t]
      /\ IF line'.depth = 0
         THEN /\ ~IsOpenCall(calls[line'.tid])
              /\ calls'[line'.tid] = [NoCall EXCEPT !.addr = line'.addr, !.ts_start = line'.ts]
              /\ IsOpenCall(calls'[line'.tid])
         ELSE calls' = calls

\* the statement of C24 as it stands: every accepted exit line matches the
\* thread's latest call, which is open, and closes it
C24_ExitStepCloses ==
    (AcceptedLine /\ line'.kind = "exit") =>
      /\ line'.tid \in Tids
      /\ ExitMatches(calls[line'.tid], line')
      /\ ~IsOpenCall(calls'[line'.tid])
      /\ calls'[line'.tid].ts_end = line'.ts

C24_ExitClosesLatestCall == [][C24_EntryStep /\ C24_ExitStepCloses]_vars

\* C24: parse_log records a new top-level call for a thread only when the
\* thread's latest recorded call is not open; an exit line is accepted only if
\* the thread's latest recorded call is open, has the line's callee address
\* and ts_start < ts_end, ts_start + elapsed = ts_end hold; an accepted exit
\* line of depth 0 closes that call, one of a greater depth leaves it open
C24_ExitStep ==
    (AcceptedLine /\ line'.kind = "exit") =>
      /\ line'.tid \in Tids
      /\ ExitMatches(calls[line'.tid], line')
      /\ \A t \in Tids \ {line'.tid} : calls'[t] = calls[t]
      /\ IF line'.depth = 0
         THEN calls'[line'.tid] = [calls[line'.tid] EXCEPT !.ts_end = line'.ts,
                                                           !.caller = line'.addr]
         ELSE calls' = calls

C24_ExitMatchesOpenCall == [][C24_EntryStep /\ C24_ExitStep]_vars

\* an exit line of depth 0 was accepted and has closed the thread's call
C24_Witness ==
    /\ tool = "gdb_sym"
    /\ p_pc = "parse"
    /\ parse_exc = "none"
    /\ line.kind = "exit"
    /\ line.depth = 0
    /\ line.tid \in Tids
    /\ calls[line.tid].addr = line.callee
    /\ calls[line.tid].ts_end = line.ts
    /\ calls[line.tid].ts_start + line.elapsed = line.ts
====
